---- MODULE Spec2Model ----
(***************************************************************************)
(* Skill matching and ATS fit scoring of ResumeMatch:                      *)
(*   backend/agents/gap_analysis.py   GapAnalysisAgent                     *)
(*   backend/agents/ats_scorer.py     ATSScorerAgent                       *)
(*   backend/utils/skill_matcher.py   SkillOntology, SkillMatcher          *)
(* Strings are TLA+ strings; a character is a string of length one.        *)
(* Confidences and match rates, floats in the source, are kept as integers *)
(* in hundredths (confidence) and thousandths (match_rate).                *)
(***************************************************************************)
EXTENDS Integers, Sequences, FiniteSets, TLC

VARIABLES resume, jd, gap_analysis, ats, matcher, pc, args, ret

vars == <<resume, jd, gap_analysis, ats, matcher, pc, args, ret>>

None == "None"

(***************************************************************************)
(* Python str methods used by the agents.                                  *)
(***************************************************************************)
UpperAlpha == "ABCDEFGHIJKLMNOPQRSTUVWXYZ"

LowerAlpha == "abcdefghijklmnopqrstuvwxyz"

Digits == "0123456789"

Char(s, i) == SubSeq(s, i, i)

Chars(s) == {Char(s, i) : i \in 1..Len(s)}

ToLower == [c \in Chars(UpperAlpha) |->
              Char(LowerAlpha, CHOOSE i \in 1..Len(UpperAlpha) : Char(UpperAlpha, i) = c)]

ToUpper == [c \in Chars(LowerAlpha) |->
              Char(UpperAlpha, CHOOSE i \in 1..Len(LowerAlpha) : Char(LowerAlpha, i) = c)]

LowerChar(c) == IF c \in DOMAIN ToLower THEN ToLower[c] ELSE c

UpperChar(c) == IF c \in DOMAIN ToUpper THEN ToUpper[c] ELSE c

\* str.lower() and str.upper(), character by character; the string is halved so
\* that the evaluation stays shallow on long texts
RECURSIVE lower(_)
lower(s) ==
  IF Len(s) <= 1 THEN LowerChar(s)
  ELSE lower(SubSeq(s, 1, Len(s) \div 2)) \o lower(SubSeq(s, (Len(s) \div 2) + 1, Len(s)))

RECURSIVE upper(_)
upper(s) ==
  IF Len(s) <= 1 THEN UpperChar(s)
  ELSE upper(SubSeq(s, 1, Len(s) \div 2)) \o upper(SubSeq(s, (Len(s) \div 2) + 1, Len(s)))

IsSpace(c) == c \in {" ", "\t", "\n", "\r"}

RECURSIVE lstrip(_)
lstrip(s) == IF s # "" /\ IsSpace(Char(s, 1)) THEN lstrip(Tail(s)) ELSE s

RECURSIVE rstrip(_)
rstrip(s) ==
  IF s # "" /\ IsSpace(Char(s, Len(s))) THEN rstrip(SubSeq(s, 1, Len(s) - 1)) ELSE s

strip(s) == rstrip(lstrip(s))

\* str.replace(old, new) for a single character old
RECURSIVE replace(_, _, _)
replace(s, old, new) ==
  IF Len(s) <= 1 THEN (IF s = old THEN new ELSE s)
  ELSE replace(SubSeq(s, 1, Len(s) \div 2), old, new)
       \o replace(SubSeq(s, (Len(s) \div 2) + 1, Len(s)), old, new)

\* str.split(): the maximal runs of non-whitespace characters, in order
TokenStarts(s) ==
  {i \in 1..Len(s) : ~IsSpace(Char(s, i)) /\ (i = 1 \/ IsSpace(Char(s, i - 1)))}

TokenEnd(s, i) ==
  CHOOSE j \in i..Len(s) :
    /\ j = Len(s) \/ IsSpace(Char(s, j + 1))
    /\ \A k \in i..j : ~IsSpace(Char(s, k))

split(s) ==
  LET starts == TokenStarts(s)
      nth(k) == CHOOSE i \in starts : Cardinality({x \in starts : x < i}) = k - 1
  IN [k \in 1..Cardinality(starts) |-> SubSeq(s, nth(k), TokenEnd(s, nth(k)))]

\* " ".join(parts)
RECURSIVE join(_, _)
join(sep, parts) ==
  IF parts = <<>> THEN ""
  ELSE IF Len(parts) = 1 THEN parts[1]
  ELSE parts[1] \o sep \o join(sep, Tail(parts))

\* sub in s, for strings
Contains(s, sub) ==
  \E i \in 1..(Len(s) - Len(sub) + 1) : SubSeq(s, i, i + Len(sub) - 1) = sub

(***************************************************************************)
(* re.search(r'\b' + re.escape(skill) + r'\b', text, re.IGNORECASE)        *)
(***************************************************************************)
WordChars == Chars(LowerAlpha) \cup Chars(UpperAlpha) \cup Chars(Digits) \cup {"_"}

IsWordChar(c) == c \in WordChars

\* \b holds in front of position p (1..Len+1) when exactly one of the two
\* neighbouring characters is a word character; outside the text counts as none
WordBoundary(text, p) ==
  LET before == p > 1 /\ IsWordChar(Char(text, p - 1))
      after  == p <= Len(text) /\ IsWordChar(Char(text, p))
  IN before # after

SearchWord(word, text) ==
  LET w == lower(word)
      t == lower(text)
  IN \E i \in 1..(Len(t) - Len(w) + 1) :
        /\ SubSeq(t, i, i + Len(w) - 1) = w
        /\ WordBoundary(text, i)
        /\ WordBoundary(text, i + Len(w))

\* Python list helpers
Range(seq) == {seq[i] : i \in 1..Len(seq)}

RECURSIVE SelectIdx(_, _, _)
SelectIdx(seq, keep, i) ==
  IF i > Len(seq) THEN <<>>
  ELSE (IF keep[i] THEN <<seq[i]>> ELSE <<>>) \o SelectIdx(seq, keep, i + 1)

Take(seq, n) == SubSeq(seq, 1, IF Len(seq) < n THEN Len(seq) ELSE n)

Min(a, b) == IF a < b THEN a ELSE b

Max(a, b) == IF a > b THEN a ELSE b

EQUIVALENCES ==
  << [canonical |-> "sql", equivalents |->
        <<"postgresql", "postgres", "psql", "pg", "mysql", "mariadb", "sqlite", "sql server",
          "mssql", "tsql", "oracle", "pl/sql", "plsql">>],
     [canonical |-> "postgresql", equivalents |->
        <<"postgres", "psql", "pg">>],
     [canonical |-> "postgres", equivalents |->
        <<"postgresql", "psql", "pg">>],
     [canonical |-> "psql", equivalents |->
        <<"postgresql", "postgres", "pg">>],
     [canonical |-> "pg", equivalents |->
        <<"postgresql", "postgres", "psql">>],
     [canonical |-> "mysql", equivalents |->
        <<"mariadb", "my-sql">>],
     [canonical |-> "mariadb", equivalents |->
        <<"mysql">>],
     [canonical |-> "sqlite", equivalents |->
        <<"sqlite3", "sqlite 3">>],
     [canonical |-> "javascript", equivalents |->
        <<"js", "ecmascript">>],
     [canonical |-> "typescript", equivalents |->
        <<"ts">>],
     [canonical |-> "nodejs", equivalents |->
        <<"node", "node.js">>],
     [canonical |-> "fastapi", equivalents |->
        <<"fast api", "fast-api">>],
     [canonical |-> "rest api", equivalents |->
        <<"rest", "restful", "restful api", "restful apis">>],
     [canonical |-> "microservices", equivalents |->
        <<"microservice", "microservice architecture">>],
     [canonical |-> "kubernetes", equivalents |->
        <<"k8s">>],
     [canonical |-> "cicd", equivalents |->
        <<"ci/cd", "ci cd", "continuous integration">>],
     [canonical |-> "nosql", equivalents |->
        <<"no-sql", "non-relational">>],
     [canonical |-> "git", equivalents |->
        <<"github", "gitlab", "version control", "git flow">>],
     [canonical |-> "aws", equivalents |->
        <<"amazon web services", "amazon aws">>],
     [canonical |-> "azure", equivalents |->
        <<"microsoft azure", "azure">>],
     [canonical |-> "gcp", equivalents |->
        <<"google cloud", "google cloud platform">>],
     [canonical |-> "orm", equivalents |->
        <<"sqlalchemy", "prisma", "sequelize", "typeorm", "eloquent", "jpa">>],
     [canonical |-> "odm", equivalents |->
        <<"mongoose">>] >>

SKILL_IMPORTANCE ==
  ("python" :> "critical") @@
  ("javascript" :> "critical") @@
  ("typescript" :> "critical") @@
  ("java" :> "critical") @@
  ("go" :> "critical") @@
  ("rust" :> "high") @@
  ("c++" :> "high") @@
  ("fastapi" :> "high") @@
  ("django" :> "high") @@
  ("flask" :> "high") @@
  ("react" :> "high") @@
  ("nodejs" :> "high") @@
  ("express" :> "medium") @@
  ("spring" :> "high") @@
  ("postgresql" :> "high") @@
  ("mysql" :> "high") @@
  ("mariadb" :> "high") @@
  ("mongodb" :> "high") @@
  ("redis" :> "medium") @@
  ("sql" :> "high") @@
  ("nosql" :> "medium") @@
  ("sqlite" :> "medium") @@
  ("rest" :> "high") @@
  ("rest api" :> "high") @@
  ("restful" :> "high") @@
  ("microservices" :> "medium") @@
  ("graphql" :> "medium") @@
  ("grpc" :> "medium") @@
  ("docker" :> "medium") @@
  ("kubernetes" :> "medium") @@
  ("aws" :> "medium") @@
  ("azure" :> "medium") @@
  ("gcp" :> "medium") @@
  ("git" :> "high") @@
  ("cicd" :> "medium") @@
  ("orm" :> "medium") @@
  ("odm" :> "medium") @@
  ("testing" :> "medium") @@
  ("debugging" :> "medium") @@
  ("agile" :> "low") @@
  ("communication" :> "low") @@
  ("teamwork" :> "low") @@
  ("problem solving" :> "low") @@
  ("leadership" :> "low")

CRITICAL_SKILLS_BY_ROLE ==
  << [role_type |-> "python", skills |-> <<"python", "django", "fastapi", "flask">>],
     [role_type |-> "backend", skills |-> <<"python", "java", "go", "nodejs", "fastapi", "django", "spring">>],
     [role_type |-> "frontend", skills |-> <<"javascript", "react", "vue", "angular", "typescript">>],
     [role_type |-> "fullstack", skills |-> <<"javascript", "python", "react", "nodejs">>],
     [role_type |-> "data", skills |-> <<"python", "sql", "pandas", "spark">>],
     [role_type |-> "devops", skills |-> <<"docker", "kubernetes", "aws", "terraform">>],
     [role_type |-> "cloud", skills |-> <<"aws", "azure", "gcp", "docker">>] >>

(***************************************************************************)
(* Python float arithmetic (IEEE-754 binary64, round to nearest even).     *)
(* A natural number is a little-endian sequence of 15-bit limbs without    *)
(* leading zero limbs; a float is a record [n, e] standing for n * 2^e     *)
(* with n of at most 53 significant bits.  Only non-negative values occur  *)
(* in the modelled code.                                                   *)
(***************************************************************************)
LimbBits == 15

Base == 2^LimbBits

MantissaBits == 53

Limb(a, i) == IF 1 <= i /\ i <= Len(a) THEN a[i] ELSE 0

RECURSIVE Trim(_)
Trim(a) == IF a # <<>> /\ a[Len(a)] = 0 THEN Trim(SubSeq(a, 1, Len(a) - 1)) ELSE a

RECURSIVE NatLimbs(_)
NatLimbs(k) == IF k = 0 THEN <<>> ELSE <<k % Base>> \o NatLimbs(k \div Base)

\* the value of a natural of at most two limbs
LimbsNat(a) == Limb(a, 1) + Base * Limb(a, 2)

RECURSIVE AddFrom(_, _, _, _, _)
AddFrom(a, b, i, c, n) ==
  IF i > n THEN (IF c = 0 THEN <<>> ELSE <<c>>)
  ELSE LET t == Limb(a, i) + Limb(b, i) + c
       IN <<t % Base>> \o AddFrom(a, b, i + 1, t \div Base, n)

BAdd(a, b) == AddFrom(a, b, 1, 0, Max(Len(a), Len(b)))

RECURSIVE SubFrom(_, _, _, _, _)
SubFrom(a, b, i, c, n) ==
  IF i > n THEN <<>>
  ELSE LET t == Limb(a, i) - Limb(b, i) - c
       IN <<t % Base>> \o SubFrom(a, b, i + 1, IF t < 0 THEN 1 ELSE 0, n)

\* a - b for a >= b
BSub(a, b) == Trim(SubFrom(a, b, 1, 0, Len(a)))

RECURSIVE GeFrom(_, _, _)
GeFrom(a, b, i) ==
  IF i = 0 THEN TRUE
  ELSE IF Limb(a, i) # Limb(b, i) THEN Limb(a, i) > Limb(b, i)
  ELSE GeFrom(a, b, i - 1)

BGe(a, b) == GeFrom(a, b, Max(Len(a), Len(b)))

\* a * d for one limb d
RECURSIVE MulLimbFrom(_, _, _, _)
MulLimbFrom(a, d, i, c) ==
  IF i > Len(a) THEN (IF c = 0 THEN <<>> ELSE <<c>>)
  ELSE LET t == a[i] * d + c
       IN <<t % Base>> \o MulLimbFrom(a, d, i + 1, t \div Base)

RECURSIVE MulFrom(_, _, _)
MulFrom(a, b, j) ==
  IF j > Len(b) THEN <<>>
  ELSE BAdd([i \in 1..(j - 1) |-> 0] \o MulLimbFrom(a, b[j], 1, 0),
            MulFrom(a, b, j + 1))

BMul(a, b) == Trim(MulFrom(a, b, 1))

BitLen(a) ==
  IF a = <<>> THEN 0
  ELSE LimbBits * (Len(a) - 1)
       + (CHOOSE w \in 1..LimbBits : 2^(w - 1) <= a[Len(a)] /\ a[Len(a)] < 2^w)

BitAt(a, p) == (Limb(a, (p \div LimbBits) + 1) \div 2^(p % LimbBits)) % 2

\* a * 2^k
Shl(a, k) ==
  LET q == k \div LimbBits
      r == k % LimbBits
  IN Trim([j \in 1..(Len(a) + q + 1) |->
             IF j <= q THEN 0
             ELSE (Limb(a, j - q) % 2^(LimbBits - r)) * 2^r
                  + (Limb(a, j - q - 1) \div 2^(LimbBits - r))])

\* floor(a / 2^k)
Shr(a, k) ==
  LET q == k \div LimbBits
      r == k % LimbBits
  IN Trim([j \in 1..(Len(a) - q) |->
             (Limb(a, q + j) \div 2^r) + (Limb(a, q + j + 1) % 2^r) * 2^(LimbBits - r)])

\* a is a multiple of 2^k
LowBitsZero(a, k) ==
  /\ \A i \in 1..(k \div LimbBits) : Limb(a, i) = 0
  /\ Limb(a, (k \div LimbBits) + 1) % 2^(k % LimbBits) = 0

\* the nearest float to the exact value n * 2^e, ties to the even mantissa
Round53(x) ==
  LET d == BitLen(x.n) - MantissaBits
  IN IF d <= 0 THEN x
     ELSE LET q  == Shr(x.n, d)
              up == /\ BitAt(x.n, d - 1) = 1
                    /\ (~LowBitsZero(x.n, d - 1) \/ BitAt(q, 0) = 1)
          IN [n |-> IF up THEN BAdd(q, <<1>>) ELSE q, e |-> x.e + d]

FromInt(k) == [n |-> NatLimbs(k), e |-> 0]

\* limbs of floor(r * Base^k / d) for r < d, collected little-endian in acc
RECURSIVE QuotLimbs(_, _, _, _)
QuotLimbs(r, d, k, acc) ==
  IF k = 0 THEN <<IF r = 0 THEN 0 ELSE 1>> \o acc
  ELSE QuotLimbs((r * Base) % d, d, k - 1, <<(r * Base) \div d>> \o acc)

\* float(m) / float(d) for naturals m and 0 < d < 2^15: the quotient is
\* expanded beyond the mantissa, and a lowest limb records whether the
\* division left a remainder
FDiv(m, d) ==
  LET k == 6
  IN Round53([n |-> Trim(QuotLimbs(m % d, d, k, <<>>) \o NatLimbs(m \div d)),
              e |-> 0 - LimbBits * (k + 1)])

\* a decimal literal p/q (0.8 is 8/10) is the float nearest to it
Literal(p, q) == FDiv(p, q)

Align(x, y) ==
  IF x.e >= y.e THEN [a |-> Shl(x.n, x.e - y.e), b |-> y.n, e |-> y.e]
  ELSE [a |-> x.n, b |-> Shl(y.n, y.e - x.e), e |-> x.e]

FGe(x, y) == LET z == Align(x, y) IN BGe(z.a, z.b)

FAdd(x, y) == LET z == Align(x, y) IN Round53([n |-> BAdd(z.a, z.b), e |-> z.e])

\* x - y for x >= y
FSub(x, y) == LET z == Align(x, y) IN Round53([n |-> BSub(z.a, z.b), e |-> z.e])

FMul(x, y) == Round53([n |-> BMul(x.n, y.n), e |-> x.e + y.e])

\* int(x) for a float below 2^30
FTrunc(x) ==
  IF x.e >= 0 THEN LimbsNat(Shl(x.n, x.e)) ELSE LimbsNat(Shr(x.n, 0 - x.e))

\* round(x, k) as the integer round(x, k) * 10^k, scale = 10^k: Python rounds
\* the exact value of the float, ties to even
FRoundScaled(x, scale) ==
  LET p    == [n |-> BMul(x.n, NatLimbs(scale)), e |-> x.e]
      ip   == FTrunc(p)
      h    == (0 - p.e) - 1
  IN IF p.e >= 0 \/ BitAt(p.n, h) = 0 THEN ip
     ELSE IF ~LowBitsZero(p.n, h) THEN ip + 1
     ELSE IF ip % 2 = 0 THEN ip ELSE ip + 1


\* the largest d in lo..hi with b * d <= r
RECURSIVE QuotDigit(_, _, _, _)
QuotDigit(r, b, lo, hi) ==
  IF lo >= hi THEN lo
  ELSE IF BGe(r, BMul(b, <<(lo + hi + 1) \div 2>>))
    THEN QuotDigit(r, b, (lo + hi + 1) \div 2, hi)
    ELSE QuotDigit(r, b, lo, ((lo + hi + 1) \div 2) - 1)

\* the two limbs of r that stand over the top limb of an n-limb divisor
TopLimbs(r, n) == Limb(r, n + 1) * Base + Limb(r, n)

\* long division of a by b, from limb i of a down, r the remainder so far:
\* the limbs of the quotient and the last remainder.  The top limb of b has
\* its highest bit set, which confines each digit to the few values between
\* the two estimates made from the top limbs
RECURSIVE DivFrom(_, _, _, _)
DivPut(d, rest) == [q |-> rest.q \o <<d>>, r |-> rest.r]

DivDigit(a, b, i, cur, d) ==
  IF d >= 0 THEN DivPut(d, DivFrom(a, b, i - 1, BSub(cur, BMul(b, <<d>>))))
  ELSE DivPut(0, [q |-> <<>>, r |-> cur])

DivStep(a, b, i, cur) ==
  DivDigit(a, b, i, cur,
           QuotDigit(cur, b, TopLimbs(cur, Len(b)) \div (b[Len(b)] + 1),
                     Min(Base - 1, TopLimbs(cur, Len(b)) \div b[Len(b)])))

DivFrom(a, b, i, r) ==
  IF i <= 0 THEN [q |-> <<>>, r |-> r]
  ELSE DivStep(a, b, i, Trim(<<a[i]>> \o r))

\* the float nearest to a quotient with remainder d scaled by 2^e: the
\* remainder is kept as a lowest bit below the bits that are rounded away
FSticky(d, e) ==
  Round53([n |-> BAdd(Shl(Trim(d.q), 1), IF d.r = <<>> THEN <<>> ELSE <<1>>),
           e |-> e - 1])

\* a / b: the top limbs of a that cannot hold a digit start as the remainder
FQuot(a, b, e) ==
  FSticky(DivFrom(a, b, Len(a) - Len(b) + 1,
                  Trim(SubSeq(a, Len(a) - Len(b) + 2, Len(a)))), e)

\* x / y for floats x >= 0 and y > 0: the mantissa of x is shifted by s until
\* the quotient has more bits than the mantissa keeps, and both by t until the
\* top limb of the divisor is full
FShifted(x, y, s, t) == FQuot(Shl(x.n, s + t), Shl(y.n, t), x.e - y.e - s)

FDivide(x, y) ==
  IF x.n = <<>> THEN x
  ELSE FShifted(x, y, Max(0, MantissaBits + 2 + BitLen(y.n) - BitLen(x.n)),
                LimbBits * Len(y.n) - BitLen(y.n))

(***************************************************************************)
(* GapAnalysisAgent (backend/agents/gap_analysis.py)                       *)
(***************************************************************************)

\* dict.get(key, default) on a dict kept as a function over its keys
Get(dict, key, default) == IF key \in DOMAIN dict THEN dict[key] ELSE default

\* the dict {key(s): s for s in seq}: a later entry with the same key wins
RECURSIVE DictOf(_, _, _)
DictOf(seq, keys, i) ==
  IF i > Len(seq) THEN <<>>
  ELSE DictOf(seq, keys, i + 1) @@ (keys[i] :> seq[i])

\* first index of seq at which ok holds, 0 when there is none
FirstIdx(ok) ==
  IF \E i \in DOMAIN ok : ok[i]
    THEN CHOOSE i \in DOMAIN ok : ok[i] /\ \A j \in 1..(i - 1) : ~ok[j]
    ELSE 0

\* _build_equivalence_index: every canonical name and every equivalent, lower
\* case, is entered in the order of the table, a later entry for the same name
\* replacing the earlier: a name ends mapped to the canonical of the last
\* table entry that mentions it
Mentions(k, name) ==
  \/ lower(EQUIVALENCES[k].canonical) = name
  \/ name \in {lower(EQUIVALENCES[k].equivalents[i]) :
                 i \in 1..Len(EQUIVALENCES[k].equivalents)}

IndexedNames ==
  UNION {{lower(EQUIVALENCES[k].canonical)}
         \cup {lower(EQUIVALENCES[k].equivalents[i]) :
                  i \in 1..Len(EQUIVALENCES[k].equivalents)} : k \in 1..Len(EQUIVALENCES)}

LastMention(name) ==
  CHOOSE k \in 1..Len(EQUIVALENCES) :
    Mentions(k, name) /\ \A later \in (k + 1)..Len(EQUIVALENCES) : ~Mentions(later, name)

_build_equivalence_index ==
  [name \in IndexedNames |-> lower(EQUIVALENCES[LastMention(name)].canonical)]

equiv_to_canonical == _build_equivalence_index

_normalize_skill(skill) ==
  LET skill_lower == strip(lower(skill))
  IN Get(equiv_to_canonical, skill_lower, skill_lower)

_get_skill_importance(skill) ==
  Get(SKILL_IMPORTANCE, _normalize_skill(skill), "medium")

\* EQUIVALENCES.get(name, [])
EquivalentsOf(name) ==
  LET k == FirstIdx([i \in 1..Len(EQUIVALENCES) |-> EQUIVALENCES[i].canonical = name])
  IN IF k = 0 THEN <<>> ELSE EQUIVALENCES[k].equivalents

\* re.fullmatch in place of re.search: the text must be the skill
FullMatchInText(skill, text) == lower(text) = lower(skill)

\* the pattern without its word boundaries: the skill anywhere in the text
SubstringInText(skill, text) == Contains(lower(text), lower(skill))

_skill_in_text(skill, text) == SearchWord(skill, text)

RECURSIVE ExtendAll(_, _, _)
ExtendAll(seq, parts, i) ==
  IF i > Len(seq) THEN <<>> ELSE parts[i] \o ExtendAll(seq, parts, i + 1)

\* filter(None, parts): the non-empty parts
NonEmpty(parts) == SelectIdx(parts, [i \in 1..Len(parts) |-> parts[i] # ""], 1)

_get_full_resume_text(r) ==
  LET exp_parts  == [i \in 1..Len(r.experience) |->
                       <<r.experience[i].title, r.experience[i].company>>
                       \o r.experience[i].description
                       \o r.experience[i].skills_used]
      proj_parts == [i \in 1..Len(r.projects) |->
                       <<r.projects[i].name, r.projects[i].description>>
                       \o r.projects[i].technologies]
      parts == <<r.raw_text>> \o ExtendAll(r.experience, exp_parts, 1)
               \o ExtendAll(r.projects, proj_parts, 1) \o r.certifications
  IN join(" ", NonEmpty(parts))

SkillMatchResult(skill, matched, matched_with, confidence, match_strategy, importance) ==
  [skill |-> skill, matched |-> matched, matched_with |-> matched_with,
   confidence |-> confidence, match_strategy |-> match_strategy,
   importance |-> importance]

sql_variants ==
  <<"postgresql", "postgres", "psql", "pg", "mysql", "mariadb", "sqlite", "sqlite3",
    "sql server", "mssql", "oracle">>

StopParts == {"with", "and", "the", "for"}

no_match(jd_skill, importance) ==
  SkillMatchResult(jd_skill, FALSE, None, 0, "no_match", importance)

\* Strategy 4: the first part of the skill name, of four letters or more, that
\* is a declared skill or a word of the text
PartialResult(jd_skill, main_parts, k, resume_skills_lower, importance) ==
  IF k = 0 THEN no_match(jd_skill, importance)
  ELSE IF main_parts[k] \in DOMAIN resume_skills_lower
    THEN SkillMatchResult(jd_skill, TRUE, resume_skills_lower[main_parts[k]],
                          65, "partial_match", importance)
  ELSE SkillMatchResult(jd_skill, TRUE, "[" \o main_parts[k] \o " found in text]",
                        65, "partial_match", importance)

MainParts(skill_parts) ==
  SelectIdx(skill_parts,
            [i \in 1..Len(skill_parts) |->
               Len(skill_parts[i]) >= 4 /\ skill_parts[i] \notin StopParts], 1)

PartialOf(jd_skill, main_parts, resume_skills_lower, resume_text_lower, importance) ==
  PartialResult(jd_skill, main_parts,
                FirstIdx([i \in 1..Len(main_parts) |->
                            \/ main_parts[i] \in DOMAIN resume_skills_lower
                            \/ _skill_in_text(main_parts[i], resume_text_lower)]),
                resume_skills_lower, importance)

MatchPartial(jd_skill, jd_skill_lower, resume_skills_lower, resume_text_lower, importance) ==
  PartialOf(jd_skill,
            MainParts(split(replace(replace(jd_skill_lower, "-", " "), "/", " "))),
            resume_skills_lower, resume_text_lower, importance)

\* Strategy 3: the skill as a whole word of the resume text
MatchText(jd_skill, jd_skill_lower, resume_skills_lower, resume_text_lower, importance) ==
  IF _skill_in_text(jd_skill_lower, resume_text_lower)
    THEN SkillMatchResult(jd_skill, TRUE, "[found in resume text]",
                          80, "text_appearance", importance)
    ELSE MatchPartial(jd_skill, jd_skill_lower, resume_skills_lower, resume_text_lower,
                      importance)

\* SQL-specific matching: the first SQL database variant that is declared, whose
\* canonical name is that of a declared skill, or that is a word of the text
SqlVariantFound(resume_skills_lower, resume_skills_normalized, resume_text_lower) ==
  FirstIdx([i \in 1..Len(sql_variants) |->
              \/ sql_variants[i] \in DOMAIN resume_skills_lower
              \/ _normalize_skill(sql_variants[i]) \in DOMAIN resume_skills_normalized
              \/ _skill_in_text(sql_variants[i], resume_text_lower)])

SqlFamilyResult(jd_skill, variant, variant_normalized, lowered, normalized, importance) ==
  IF variant \in DOMAIN lowered
    THEN SkillMatchResult(jd_skill, TRUE, lowered[variant],
                          95, "sql_family_match", importance)
  ELSE IF variant_normalized \in DOMAIN normalized
    THEN SkillMatchResult(jd_skill, TRUE, normalized[variant_normalized],
                          95, "sql_family_match", importance)
  ELSE SkillMatchResult(jd_skill, TRUE, "[" \o upper(variant) \o "]",
                        90, "sql_family_match", importance)

SqlFamilyOf(jd_skill, jd_skill_lower, k, lowered, normalized, resume_text_lower, importance) ==
  IF k = 0
    THEN MatchText(jd_skill, jd_skill_lower, lowered, resume_text_lower, importance)
    ELSE SqlFamilyResult(jd_skill, sql_variants[k], _normalize_skill(sql_variants[k]),
                         lowered, normalized, importance)

MatchSqlFamily(jd_skill, jd_skill_lower, jd_normalized, lowered, normalized, text, importance) ==
  IF jd_normalized = "sql"
    THEN SqlFamilyOf(jd_skill, jd_skill_lower,
                     SqlVariantFound(lowered, normalized, text),
                     lowered, normalized, text, importance)
    ELSE MatchText(jd_skill, jd_skill_lower, lowered, text, importance)

\* Strategy 2b: the first listed equivalent of the canonical name that is a
\* declared skill or a word of the text
EquivalentFound(equivalents, resume_skills_lower, resume_text_lower) ==
  FirstIdx([i \in 1..Len(equivalents) |->
              \/ lower(equivalents[i]) \in DOMAIN resume_skills_lower
              \/ _skill_in_text(equivalents[i], resume_text_lower)])

EquivalentResult(jd_skill, equiv, resume_skills_lower, importance) ==
  IF lower(equiv) \in DOMAIN resume_skills_lower
    THEN SkillMatchResult(jd_skill, TRUE, resume_skills_lower[lower(equiv)],
                          95, "equivalence_match", importance)
    ELSE SkillMatchResult(jd_skill, TRUE, "[" \o equiv \o " found in resume]",
                          90, "equivalence_match", importance)

EquivalentOf(jd_skill, jd_skill_lower, jd_normalized, equivalents, k, lowered, normalized, text, importance) ==
  IF k = 0
    THEN MatchSqlFamily(jd_skill, jd_skill_lower, jd_normalized, lowered, normalized,
                        text, importance)
    ELSE EquivalentResult(jd_skill, equivalents[k], lowered, importance)

MatchEquivalents(jd_skill, jd_skill_lower, jd_normalized, equivalents, lowered, normalized, text, importance) ==
  EquivalentOf(jd_skill, jd_skill_lower, jd_normalized, equivalents,
               EquivalentFound(equivalents, lowered, text),
               lowered, normalized, text, importance)

\* Strategies 1 and 2a, then the others in turn: lowered and normalized are the
\* dicts of the declared skills by lower-case and by canonical name
MatchIn(jd_skill, jd_skill_lower, jd_normalized, lowered, normalized, text, importance) ==
  IF jd_skill_lower \in DOMAIN lowered
    THEN SkillMatchResult(jd_skill, TRUE, lowered[jd_skill_lower],
                          100, "exact_match", importance)
  ELSE IF jd_normalized \in DOMAIN normalized
    THEN SkillMatchResult(jd_skill, TRUE, normalized[jd_normalized],
                          95, "equivalence_match", importance)
  ELSE MatchEquivalents(jd_skill, jd_skill_lower, jd_normalized,
                        EquivalentsOf(jd_normalized), lowered, normalized, text, importance)

_match_skill(jd_skill, resume_skills, resume_text, importance_type) ==
  MatchIn(jd_skill, strip(lower(jd_skill)), _normalize_skill(jd_skill),
          DictOf(resume_skills, [i \in 1..Len(resume_skills) |-> lower(resume_skills[i])], 1),
          DictOf(resume_skills,
                 [i \in 1..Len(resume_skills) |-> _normalize_skill(resume_skills[i])], 1),
          lower(resume_text), _get_skill_importance(jd_skill))

SkillGap(skill, importance, category) ==
  [skill |-> skill, importance |-> importance, category |-> category]

Matched(matches) == SelectIdx(matches, [i \in 1..Len(matches) |-> matches[i].matched], 1)

Unmatched(matches) == SelectIdx(matches, [i \in 1..Len(matches) |-> ~matches[i].matched], 1)

SkillsOf(matches) == [i \in 1..Len(matches) |-> matches[i].skill]

seniority_requirements ==
  ("entry" :> 0) @@ ("junior" :> 1) @@ ("mid" :> 2) @@ ("senior" :> 4) @@
  ("lead" :> 5) @@ ("principal" :> 7)

_check_seniority(r, j) ==
  Len(r.experience) >= Max(0, Get(seniority_requirements, j.seniority, 2) - 1)

\* a table that weighs every importance alike
FlatWeights(importance) == FromInt(1)

\* importance_weights.get(m.importance, 0.5)
importance_weights(importance) ==
  CASE importance = "critical" -> FromInt(1)
    [] importance = "high" -> Literal(8, 10)
    [] importance = "medium" -> Literal(5, 10)
    [] importance = "low" -> Literal(2, 10)
    [] OTHER -> Literal(5, 10)

\* acc + xs[i] + xs[i + 1] + ..., added in this order
RECURSIVE FSum(_, _, _)
FSum(xs, i, acc) ==
  IF i > Len(xs) THEN acc
  ELSE CHOOSE total \in {FSum(xs, i + 1, sum) : sum \in {FAdd(acc, xs[i])}} : TRUE

\* the weights of the required matches followed by those of the preferred
MatchWeights(required_matches, preferred_matches) ==
  [i \in 1..Len(required_matches) |-> importance_weights(required_matches[i].importance)]
  \o [i \in 1..Len(preferred_matches) |->
        FMul(importance_weights(preferred_matches[i].importance), Literal(3, 10))]

\* weight * m.confidence of the matched items, in the order of the weights
MatchedWeights(matches, weights) ==
  LET matched == {i \in 1..Len(matches) : matches[i].matched}
  IN [k \in 1..Cardinality(matched) |->
        LET i == CHOOSE i \in matched : Cardinality({h \in matched : h < i}) = k - 1
        IN FMul(weights[i], Literal(matches[i].confidence, 100))]

\* the percentage from the two sums, as round(percentage, 1) in tenths
WeightedPercentage(matched_weight, total_weight) ==
  IF total_weight.n = <<>> THEN 700
  ELSE CHOOSE rounded \in
         {FRoundScaled(percentage, 10) :
            percentage \in {FMul(ratio, FromInt(100)) :
                              ratio \in {FDivide(matched_weight, total_weight)}}} : TRUE

\* _calculate_weighted_match, rounded as analyze rounds it
_calculate_weighted_match(required_matches, preferred_matches) ==
  CHOOSE rounded \in
    {WeightedPercentage(matched_weight, total_weight) :
       matched_weight \in
         {FSum(MatchedWeights(required_matches \o preferred_matches,
                              MatchWeights(required_matches, preferred_matches)),
               1, FromInt(0))},
       total_weight \in
         {FSum(MatchWeights(required_matches, preferred_matches), 1, FromInt(0))}} : TRUE

\* the GapAnalysis assembled from the four lists of match results
GapOf(r, j, required_matches, preferred_matches, tools_matches, keywords_matches) ==
  LET required_matching == SkillsOf(Matched(required_matches))
      preferred_matching == SkillsOf(Matched(preferred_matches))
      missing_required == Unmatched(required_matches)
      missing_preferred == Unmatched(preferred_matches)
  IN [matching_skills |->
        required_matching
        \o SelectIdx(preferred_matching,
                     [i \in 1..Len(preferred_matching) |->
                        preferred_matching[i] \notin Range(required_matching)], 1),
      missing_skills |->
        [i \in 1..Len(missing_required) |->
           SkillGap(missing_required[i].skill, "required", missing_required[i].importance)]
        \o [i \in 1..Len(missing_preferred) |->
           SkillGap(missing_preferred[i].skill, "preferred",
                    missing_preferred[i].importance)],
      matching_tools |-> SkillsOf(Matched(tools_matches)),
      missing_tools |-> SkillsOf(Unmatched(tools_matches)),
      matching_keywords |-> SkillsOf(Matched(keywords_matches)),
      missing_keywords |-> SkillsOf(Unmatched(keywords_matches)),
      experience_match |-> Len(r.experience) > 0,
      seniority_match |-> _check_seniority(r, j),
      overall_match_percentage |->
        _calculate_weighted_match(required_matches, preferred_matches)]

\* the match results of one list of the job description
MatchAll(skills, resume_skills, resume_text, importance_type) ==
  [i \in 1..Len(skills) |-> _match_skill(skills[i], resume_skills, resume_text,
                                         importance_type)]

AnalyzeText(r, j, resume_text) ==
  GapOf(r, j,
        MatchAll(j.required_skills, r.skills, resume_text, "required"),
        MatchAll(j.preferred_skills, r.skills, resume_text, "preferred"),
        MatchAll(j.tools, r.skills, resume_text, "tool"),
        MatchAll(j.keywords, r.skills, resume_text, "keyword"))

\* analyze: the fields that neither the scorer nor the properties below read
\* (the strengths and weaknesses strings) are left out; _categorize_gaps and _assess_readiness feed only those and never raise
analyze(r, j) == AnalyzeText(r, j, _get_full_resume_text(r))

(***************************************************************************)
(* ATSScorerAgent (backend/agents/ats_scorer.py)                           *)
(***************************************************************************)
LowerAll(seq) == {lower(seq[i]) : i \in 1..Len(seq)}

MissingRequired(gap) ==
  SelectIdx(gap.missing_skills,
            [i \in 1..Len(gap.missing_skills) |->
               gap.missing_skills[i].importance = "required"], 1)

\* the graduated penalty of one severity tier, as the lambdas compute it:
\* min(-per_issue * count, -cap)
critical_penalty(count) == Min((-8) * count, -20)

high_penalty(count) == Min((-4) * count, -12)

medium_penalty(count) == Min((-2) * count, -6)

low_penalty(count) == Min((-1) * count, -3)

SEVERITY_PENALTIES(severity, count) ==
  CASE severity = "critical" -> critical_penalty(count)
    [] severity = "high"     -> high_penalty(count)
    [] severity = "medium"   -> medium_penalty(count)
    [] severity = "low"      -> low_penalty(count)

Severities == <<"critical", "high", "medium", "low">>

SeverityCount(issues, severity) ==
  Cardinality({i \in 1..Len(issues) : issues[i].severity = severity})

\* the penalty of one tier: its function is applied only when count > 0
TierPenalty(issues, severity) ==
  IF SeverityCount(issues, severity) > 0
    THEN SEVERITY_PENALTIES(severity, SeverityCount(issues, severity))
    ELSE 0

RECURSIVE SumPenalties(_, _)
SumPenalties(issues, k) ==
  IF k > Len(Severities) THEN 0
  ELSE TierPenalty(issues, Severities[k]) + SumPenalties(issues, k + 1)

_calculate_issue_penalty(issues) == SumPenalties(issues, 1)

RECURSIVE CriticalForRole(_, _)
CriticalForRole(role_lower, k) ==
  IF k > Len(CRITICAL_SKILLS_BY_ROLE) THEN {}
  ELSE (IF Contains(role_lower, CRITICAL_SKILLS_BY_ROLE[k].role_type)
          THEN Range(CRITICAL_SKILLS_BY_ROLE[k].skills) ELSE {})
       \cup CriticalForRole(role_lower, k + 1)

_get_missing_critical_skills(j, gap) ==
  LET critical_for_role == CriticalForRole(lower(j.role), 1)
      missing  == MissingRequired(gap)
      missing_required == [i \in 1..Len(missing) |-> lower(missing[i].skill)]
      top_required == LowerAll(Take(j.required_skills, 3))
  IN IF j.required_skills = <<>> THEN <<>>
     ELSE SelectIdx(missing_required,
                    [i \in 1..Len(missing_required) |->
                       \/ lower(missing_required[i]) \in critical_for_role
                       \/ lower(missing_required[i]) \in top_required], 1)

\* the curve with its 60-80% band starting ten points low
SkillCurveLowBand(match_ratio) ==
  IF FGe(match_ratio, Literal(8, 10))
    THEN 88 + FTrunc(FMul(FSub(match_ratio, Literal(8, 10)), FromInt(60)))
  ELSE IF FGe(match_ratio, Literal(6, 10))
    THEN 62 + FTrunc(FMul(FSub(match_ratio, Literal(6, 10)), FromInt(80)))
  ELSE IF FGe(match_ratio, Literal(4, 10))
    THEN 55 + FTrunc(FMul(FSub(match_ratio, Literal(4, 10)), FromInt(85)))
  ELSE IF FGe(match_ratio, Literal(2, 10))
    THEN 35 + FTrunc(FMul(FSub(match_ratio, Literal(2, 10)), FromInt(100)))
  ELSE Max(15, FTrunc(FMul(match_ratio, FromInt(175))))

\* the scoring curve of _calculate_skill_score over match_ratio = matched / total
SkillCurve(match_ratio) ==
  IF FGe(match_ratio, Literal(8, 10))
    THEN 88 + FTrunc(FMul(FSub(match_ratio, Literal(8, 10)), FromInt(60)))
  ELSE IF FGe(match_ratio, Literal(6, 10))
    THEN 72 + FTrunc(FMul(FSub(match_ratio, Literal(6, 10)), FromInt(80)))
  ELSE IF FGe(match_ratio, Literal(4, 10))
    THEN 55 + FTrunc(FMul(FSub(match_ratio, Literal(4, 10)), FromInt(85)))
  ELSE IF FGe(match_ratio, Literal(2, 10))
    THEN 35 + FTrunc(FMul(FSub(match_ratio, Literal(2, 10)), FromInt(100)))
  ELSE Max(15, FTrunc(FMul(match_ratio, FromInt(175))))

\* the scored branch: match_ratio = len(required_matched) / total_required, a
\* division that raises ZeroDivisionError for an empty required list
SkillScoreOfRatio(gap, j) ==
  LET required_skills_lower == LowerAll(j.required_skills)
      required_matched == LowerAll(gap.matching_skills) \cap required_skills_lower
      missing_required == MissingRequired(gap)
      total_required == Len(j.required_skills)
      match_ratio == FDiv(Cardinality(required_matched), total_required)
  IN IF total_required = 0 THEN [raised |-> "ZeroDivisionError"]
     ELSE [raised |-> None,
           score |-> Max(0, Min(100, SkillCurve(match_ratio))),
           details |->
             [required_matched |-> Cardinality(required_matched),
              required_total |-> total_required,
              match_rate |-> FRoundScaled(match_ratio, 1000),
              missing_required |->
                [i \in 1..Len(missing_required) |-> missing_required[i].skill]]]

\* the ratio computed for every list, an empty one too
UnguardedSkillScore(gap, j) == SkillScoreOfRatio(gap, j)

\* the score with its details; raised names the exception when one is raised
_calculate_skill_score(gap, j) ==
  IF j.required_skills = <<>>
    THEN [raised |-> None, score |-> 70,
          details |-> [required_matched |-> 0, required_total |-> 0, match_rate |-> 1000]]
    ELSE SkillScoreOfRatio(gap, j)

\* a bonus that also charges two points for every preferred skill not matched
PenalisingPreferredBonus(gap, j) ==
  LET preferred_skills_lower == LowerAll(j.preferred_skills)
      matched_skills_lower == LowerAll(gap.matching_skills)
      matched_count == Cardinality(matched_skills_lower \cap preferred_skills_lower)
  IN Min(10, matched_count * 2) - 2 * Cardinality(preferred_skills_lower \ matched_skills_lower)

_calculate_preferred_bonus(gap, j) ==
  LET preferred_skills_lower == LowerAll(j.preferred_skills)
      matched_skills_lower == LowerAll(gap.matching_skills)
      matched_count == Cardinality(matched_skills_lower \cap preferred_skills_lower)
  IN IF j.preferred_skills = <<>> THEN 0 ELSE Min(10, matched_count * 2)

KeywordCurve(match_ratio) ==
  IF FGe(match_ratio, Literal(7, 10))
    THEN 82 + FTrunc(FMul(FSub(match_ratio, Literal(7, 10)), FromInt(60)))
  ELSE IF FGe(match_ratio, Literal(5, 10))
    THEN 65 + FTrunc(FMul(FSub(match_ratio, Literal(5, 10)), FromInt(85)))
  ELSE IF FGe(match_ratio, Literal(3, 10))
    THEN 45 + FTrunc(FMul(FSub(match_ratio, Literal(3, 10)), FromInt(100)))
  ELSE IF FGe(match_ratio, Literal(15, 100))
    THEN 25 + FTrunc(FMul(FSub(match_ratio, Literal(15, 100)), FromInt(133)))
  ELSE Max(10, FTrunc(FMul(match_ratio, FromInt(167))))

_calculate_keyword_score(gap) ==
  LET total_keywords == Len(gap.matching_keywords) + Len(gap.missing_keywords)
      matched == Len(gap.matching_keywords)
  IN IF total_keywords = 0 THEN 50
     ELSE Max(0, Min(100, KeywordCurve(FDiv(matched, total_keywords))))

RECURSIVE SumLen(_, _)
SumLen(experience, i) ==
  IF i > Len(experience) THEN 0
  ELSE Len(experience[i].description) + SumLen(experience, i + 1)

_calculate_formatting_score(r) ==
  LET skills_part == IF Len(r.skills) >= 5 THEN 20
                     ELSE IF Len(r.skills) >= 3 THEN 15
                     ELSE IF r.skills # <<>> THEN 8 ELSE 0
      avg_bullets == FDiv(SumLen(r.experience, 1), Len(r.experience))
      experience_part ==
        IF Len(r.experience) >= 2
          THEN 20 + (IF FGe(avg_bullets, FromInt(4)) THEN 5 ELSE 0)
        ELSE IF r.experience # <<>> THEN 15 ELSE 0
      total == skills_part + experience_part
               + (IF r.summary # "" THEN 10 ELSE 0)
               + (IF r.education # <<>> THEN 10 ELSE 0)
               + (IF r.email # "" THEN 5 ELSE 0)
               + (IF r.phone # "" THEN 5 ELSE 0)
               + (IF r.linkedin # "" THEN 10 ELSE 0)
               + (IF r.github # "" THEN 10 ELSE 0)
               + (IF Len(r.certifications) >= 1 THEN 10 ELSE 0)
  IN Min(100, total)

_count_relevance_matches(exp_text, role_keywords) ==
  Cardinality({kw \in role_keywords : SearchWord(kw, exp_text)})

LongWords(words) ==
  {words[i] : i \in {k \in 1..Len(words) : Len(words[k]) > 2}}

RoleKeywords(j) ==
  LongWords(split(lower(j.role)))
  \cup LowerAll(Take(j.required_skills, 5))
  \cup LowerAll(Take(j.keywords, 5))

ExpText(exp) ==
  lower(exp.title \o " " \o exp.company \o " " \o join(" ", exp.description))
  \o (IF exp.skills_used # <<>>
        THEN " " \o join(" ", [i \in 1..Len(exp.skills_used) |-> lower(exp.skills_used[i])])
        ELSE "")

RECURSIVE SumBullets(_, _, _)
SumBullets(experience, relevance, i) ==
  IF i > Len(experience) THEN 0
  ELSE (IF relevance[i] >= 2 THEN Len(experience[i].description)
        ELSE IF relevance[i] >= 1 THEN Len(experience[i].description) \div 2
        ELSE 0)
       + SumBullets(experience, relevance, i + 1)

seniority_map ==
  ("entry" :> 0) @@ ("junior" :> 1) @@ ("mid" :> 2) @@ ("senior" :> 3) @@
  ("lead" :> 4) @@ ("principal" :> 5)

SeniorityBonus(exp_count, seniority) ==
  LET required_exp == Get(seniority_map, seniority, 2)
  IN IF seniority \in {"entry", "junior"} THEN (IF exp_count >= 1 THEN 15 ELSE 0)
     ELSE IF seniority = "mid"
       THEN (IF exp_count >= 2 THEN 15 ELSE IF exp_count >= 1 THEN 10 ELSE 0)
     ELSE IF exp_count >= required_exp THEN 15
     ELSE IF exp_count >= Max(1, required_exp - 1) THEN 8
     ELSE 0

_calculate_experience_score(r, j) ==
  LET role_keywords == RoleKeywords(j)
      relevance == [i \in 1..Len(r.experience) |->
                      _count_relevance_matches(ExpText(r.experience[i]), role_keywords)]
      high_relevance == Cardinality({i \in 1..Len(r.experience) : relevance[i] >= 3})
      medium_relevance == Cardinality({i \in 1..Len(r.experience) : relevance[i] = 2})
      low_relevance == Cardinality({i \in 1..Len(r.experience) : relevance[i] = 1})
      total_bullets == SumBullets(r.experience, relevance, 1)
      base == IF high_relevance >= 2 THEN 80
              ELSE IF high_relevance >= 1 THEN 70
              ELSE IF medium_relevance >= 2 THEN 65
              ELSE IF medium_relevance >= 1 \/ low_relevance >= 2 THEN 55
              ELSE IF low_relevance >= 1 THEN 45
              ELSE 35
      detail == IF total_bullets >= 10 THEN 5 ELSE IF total_bullets >= 6 THEN 3 ELSE 0
  IN IF r.experience = <<>> THEN 20
     ELSE Min(100, base + SeniorityBonus(Len(r.experience), j.seniority) + detail)

STRONG == "strong"

MODERATE == "moderate"

WEAK == "weak"

NOT_ATS_FRIENDLY == "not_ats_friendly"

ATSBucket == {STRONG, MODERATE, WEAK, NOT_ATS_FRIENDLY}

\* the score-based determination without its last branch: a score below 35
\* falls off the end and the call returns None
BucketWithoutFloor(score, match_rate) ==
  IF score >= 80 /\ match_rate >= 700 THEN STRONG
  ELSE IF score >= 75 /\ match_rate >= 600 THEN STRONG
  ELSE IF score >= 55 THEN MODERATE
  ELSE IF score >= 35 THEN WEAK
  ELSE None

\* the last part of _determine_bucket: no critical gaps
BucketByScore(score, match_rate) ==
  IF score >= 80 /\ match_rate >= 700 THEN STRONG
  ELSE IF score >= 75 /\ match_rate >= 600 THEN STRONG
  ELSE IF score >= 55 THEN MODERATE
  ELSE IF score >= 35 THEN WEAK
  ELSE NOT_ATS_FRIENDLY

_determine_bucket(score, missing_critical, skill_details) ==
  LET match_rate == Get(skill_details, "match_rate", 0)
      n == Len(missing_critical)
  IN IF score < 30 THEN NOT_ATS_FRIENDLY
     ELSE IF n >= 4 THEN (IF score >= 35 THEN WEAK ELSE NOT_ATS_FRIENDLY)
     ELSE IF n >= 3
       THEN (IF score >= 70 THEN MODERATE
             ELSE IF score >= 45 THEN WEAK ELSE NOT_ATS_FRIENDLY)
     ELSE IF n = 2
       THEN (IF score >= 65 THEN MODERATE
             ELSE IF score >= 45 THEN WEAK ELSE NOT_ATS_FRIENDLY)
     ELSE IF n = 1
       THEN (IF score >= 80 THEN STRONG
             ELSE IF score >= 55 THEN MODERATE
             ELSE IF score >= 35 THEN WEAK ELSE NOT_ATS_FRIENDLY)
     ELSE BucketByScore(score, match_rate)

ATSIssue(category, severity) == [category |-> category, severity |-> severity]

\* the issue about missing required skills, if any
SkillIssues(j, gap) ==
  LET missing_required == MissingRequired(gap)
      top_required == LowerAll(Take(j.required_skills, 3))
      critical_skills_missing ==
        {i \in 1..Len(missing_required) : lower(missing_required[i].skill) \in top_required}
  IN IF Cardinality(critical_skills_missing) >= 2 THEN <<ATSIssue("Skills", "critical")>>
     ELSE IF Len(missing_required) >= 4 THEN <<ATSIssue("Skills", "high")>>
     ELSE IF Len(missing_required) >= 2 THEN <<ATSIssue("Skills", "medium")>>
     ELSE IF missing_required # <<>> THEN <<ATSIssue("Skills", "low")>>
     ELSE <<>>

\* the issues in the order found; the message texts are left out
_identify_issues(r, j, gap) ==
  LET sparse_count ==
        Cardinality({i \in 1..Len(r.experience) : Len(r.experience[i].description) < 2})
  IN SkillIssues(j, gap)
     \o (IF r.email = "" THEN <<ATSIssue("Contact", "high")>> ELSE <<>>)
     \o (IF r.experience = <<>> /\ j.seniority # "entry"
           THEN <<ATSIssue("Experience", "high")>> ELSE <<>>)
     \o (IF r.summary = "" THEN <<ATSIssue("Formatting", "medium")>> ELSE <<>>)
     \o (IF r.experience # <<>>
            /\ FGe(FromInt(sparse_count), FDiv(Len(r.experience), 2))
           THEN <<ATSIssue("Experience", "medium")>> ELSE <<>>)
     \o (IF ~FGe(FMul(FromInt(Len(gap.matching_keywords)), Literal(15, 10)),
                 FromInt(Len(gap.missing_keywords)))
           THEN <<ATSIssue("Keywords", "medium")>> ELSE <<>>)
     \o (IF r.linkedin = "" THEN <<ATSIssue("Contact", "low")>> ELSE <<>>)
     \o (IF Len(gap.missing_tools) >= 3 THEN <<ATSIssue("Tools", "low")>> ELSE <<>>)

\* int(skill * 0.40 + keyword * 0.20 + formatting * 0.20 + experience * 0.20)
BaseScore(skill_score, keyword_score, formatting_score, experience_score) ==
  FTrunc(FAdd(FAdd(FAdd(FMul(FromInt(skill_score), Literal(40, 100)),
                        FMul(FromInt(keyword_score), Literal(20, 100))),
                   FMul(FromInt(formatting_score), Literal(20, 100))),
              FMul(FromInt(experience_score), Literal(20, 100))))

\* the caps taken with max in place of min: floors
CapByCriticalAsFloor(penalized_score, missing_critical) ==
  IF Len(missing_critical) >= 4 THEN Max(penalized_score, 55)
  ELSE IF Len(missing_critical) >= 3 THEN Max(penalized_score, 65)
  ELSE IF Len(missing_critical) = 2 THEN Max(penalized_score, 75)
  ELSE penalized_score

\* the caps without the one for three missing critical skills
CapFromFourOnly(penalized_score, missing_critical) ==
  IF Len(missing_critical) >= 4 THEN Min(penalized_score, 55)
  ELSE IF Len(missing_critical) = 2 THEN Min(penalized_score, 75)
  ELSE penalized_score

\* the caps for severe blockers
CapByCritical(penalized_score, missing_critical) ==
  IF Len(missing_critical) >= 4 THEN Min(penalized_score, 55)
  ELSE IF Len(missing_critical) >= 3 THEN Min(penalized_score, 65)
  ELSE IF Len(missing_critical) = 2 THEN Min(penalized_score, 75)
  ELSE penalized_score

\* the score handed on as it is, below 0 or above 100
Unclamped(penalized_score) == penalized_score

\* final score clamped to 0-100
ClampScore(penalized_score) == Max(0, Min(100, penalized_score))

InRange(v) == v \in 0..100

\* the ATSScore model validates its int fields (ge=0, le=100) on construction
ATSScore(overall, bucket, skill, keyword, formatting, experience, issues, missing) ==
  IF InRange(overall) /\ InRange(skill) /\ InRange(keyword)
     /\ InRange(formatting) /\ InRange(experience) /\ bucket \in ATSBucket
    THEN [raised |-> None, overall_score |-> overall, bucket |-> bucket,
          skill_match_score |-> skill, keyword_score |-> keyword,
          formatting_score |-> formatting, experience_alignment_score |-> experience,
          issues |-> issues, missing_keywords |-> missing]
    ELSE [raised |-> "ValidationError"]

\* steps 2 to 7 of score, from the component scores, the issues found and the
\* missing critical skills
ScoreOf(gap, skill, keyword, formatting, experience, bonus, issues, missing_critical) ==
  LET base_score == BaseScore(skill.score, keyword, formatting, experience) + bonus
      penalized_score == base_score + _calculate_issue_penalty(issues)
      overall_score == ClampScore(CapByCritical(penalized_score, missing_critical))
  IN ATSScore(overall_score,
              _determine_bucket(overall_score, missing_critical, skill.details),
              skill.score, keyword, formatting, experience, issues,
              Take(gap.missing_keywords, 10))

\* an exception raised by a step ends the call
ScoreWith(r, j, gap, skill) ==
  IF skill.raised # None THEN [raised |-> skill.raised]
  ELSE ScoreOf(gap, skill, _calculate_keyword_score(gap), _calculate_formatting_score(r),
               _calculate_experience_score(r, j), _calculate_preferred_bonus(gap, j),
               _identify_issues(r, j, gap), _get_missing_critical_skills(j, gap))

score(r, j, gap) == ScoreWith(r, j, gap, _calculate_skill_score(gap, j))


(***************************************************************************)
(* SkillOntology (backend/utils/skill_matcher.py)                          *)
(***************************************************************************)
ONTOLOGY ==
  << [skill |-> "python",
      aliases |-> <<"python3", "py", "python programming">>,
      related |-> <<"django", "fastapi", "flask", "pandas", "numpy">>],
     [skill |-> "javascript",
      aliases |-> <<"js", "ecmascript", "es6">>,
      related |-> <<"nodejs", "react", "vue", "typescript">>],
     [skill |-> "typescript",
      aliases |-> <<"ts">>,
      related |-> <<"javascript", "angular", "react">>],
     [skill |-> "fastapi",
      aliases |-> <<"fast api", "fast-api">>,
      related |-> <<"python", "rest", "api">>],
     [skill |-> "django",
      aliases |-> <<"django framework">>,
      related |-> <<"python", "orm", "web">>],
     [skill |-> "react",
      aliases |-> <<"reactjs", "react.js">>,
      related |-> <<"javascript", "frontend", "jsx">>],
     [skill |-> "nodejs",
      aliases |-> <<"node", "node.js">>,
      related |-> <<"javascript", "express", "npm">>],
     [skill |-> "mongodb",
      aliases |-> <<"mongo">>,
      related |-> <<"nosql", "mongoose", "odm">>],
     [skill |-> "postgresql",
      aliases |-> <<"postgres", "psql", "pg">>,
      related |-> <<"sql", "relational", "orm">>],
     [skill |-> "mysql",
      aliases |-> <<"my sql">>,
      related |-> <<"sql", "relational">>],
     [skill |-> "redis",
      aliases |-> <<"redis cache">>,
      related |-> <<"caching", "nosql", "in-memory">>],
     [skill |-> "nosql",
      aliases |-> <<"no-sql", "non-relational", "nosql databases">>,
      related |-> <<"mongodb", "redis", "cassandra", "dynamodb">>],
     [skill |-> "sql",
      aliases |-> <<"structured query language">>,
      related |-> <<"postgresql", "mysql", "database", "rdbms">>],
     [skill |-> "microservices",
      aliases |-> <<"microservice", "micro-services", "microservice architecture">>,
      related |-> <<"distributed", "docker", "kubernetes", "api">>],
     [skill |-> "rest",
      aliases |-> <<"restful", "rest api", "restful api", "restful apis", "restful architectural style">>,
      related |-> <<"api", "http", "web services">>],
     [skill |-> "graphql",
      aliases |-> <<"graph ql">>,
      related |-> <<"api", "query language">>],
     [skill |-> "grpc",
      aliases |-> <<"g-rpc", "grpc api">>,
      related |-> <<"protobuf", "rpc", "microservices">>],
     [skill |-> "protobuf",
      aliases |-> <<"protocol buffers", "proto", "protobuf with python">>,
      related |-> <<"grpc", "serialization">>],
     [skill |-> "docker",
      aliases |-> <<"containerization", "docker containers">>,
      related |-> <<"kubernetes", "containers", "devops">>],
     [skill |-> "kubernetes",
      aliases |-> <<"k8s", "kube">>,
      related |-> <<"docker", "orchestration", "devops">>],
     [skill |-> "aws",
      aliases |-> <<"amazon web services", "amazon aws">>,
      related |-> <<"cloud", "ec2", "s3", "lambda">>],
     [skill |-> "azure",
      aliases |-> <<"microsoft azure", "azure cloud">>,
      related |-> <<"cloud", "microsoft">>],
     [skill |-> "gcp",
      aliases |-> <<"google cloud", "google cloud platform">>,
      related |-> <<"cloud", "google">>],
     [skill |-> "git",
      aliases |-> <<"git version control", "version control">>,
      related |-> <<"github", "gitlab", "bitbucket">>],
     [skill |-> "cicd",
      aliases |-> <<"ci/cd", "ci cd", "continuous integration", "continuous deployment">>,
      related |-> <<"jenkins", "github actions", "devops">>],
     [skill |-> "orm",
      aliases |-> <<"object relational mapping", "orms">>,
      related |-> <<"sqlalchemy", "prisma", "sequelize", "database">>],
     [skill |-> "odm",
      aliases |-> <<"object document mapping", "odms">>,
      related |-> <<"mongoose", "mongodb">>],
     [skill |-> "testing",
      aliases |-> <<"unit testing", "test", "automated testing">>,
      related |-> <<"pytest", "jest", "tdd">>],
     [skill |-> "debugging",
      aliases |-> <<"debug", "troubleshooting">>,
      related |-> <<"testing", "logging">>],
     [skill |-> "agile",
      aliases |-> <<"agile methodology", "agile methodologies">>,
      related |-> <<"scrum", "kanban", "sprint">>],
     [skill |-> "problem_solving",
      aliases |-> <<"problem solving", "problem-solving", "analytical thinking">>,
      related |-> <<"critical thinking", "debugging">>],
     [skill |-> "communication",
      aliases |-> <<"team communication", "collaboration">>,
      related |-> <<"teamwork", "presentation">>] >>

\* the names an ontology entry enters in the reverse index
OntologyNames(k) ==
  {lower(ONTOLOGY[k].skill)}
  \cup {lower(ONTOLOGY[k].aliases[i]) : i \in 1..Len(ONTOLOGY[k].aliases)}

AliasNames == UNION {OntologyNames(k) : k \in 1..Len(ONTOLOGY)}

LastOntologyEntry(name) ==
  CHOOSE k \in 1..Len(ONTOLOGY) :
    name \in OntologyNames(k)
    /\ \A later \in (k + 1)..Len(ONTOLOGY) : name \notin OntologyNames(later)

\* _build_reverse_index: the entries are entered in the order of the table, a
\* later entry for the same name replacing the earlier
_build_reverse_index ==
  [name \in AliasNames |-> ONTOLOGY[LastOntologyEntry(name)].skill]

alias_to_skill == _build_reverse_index

\* normalize that looks the skill up as it is written
NormalizeAsWritten(skill) == Get(alias_to_skill, skill, skill)

normalize(skill) ==
  LET skill_clean == strip(lower(skill))
  IN Get(alias_to_skill, skill_clean, skill_clean)

OntologyKeys == {ONTOLOGY[k].skill : k \in 1..Len(ONTOLOGY)}

OntologyEntry(key) == CHOOSE k \in 1..Len(ONTOLOGY) : ONTOLOGY[k].skill = key

get_related(skill) ==
  IF normalize(skill) \in OntologyKeys
    THEN ONTOLOGY[OntologyEntry(normalize(skill))].related
    ELSE <<>>

are_equivalent(skill1, skill2) == normalize(skill1) = normalize(skill2)

(***************************************************************************)
(* SkillMatcher (utils/skill_matcher.py).  A matcher is the record of its  *)
(* fields use_embeddings, model and _embeddings_cache; the cache is the    *)
(* set of the texts it holds an embedding for.  The collaborator           *)
(* sentence_transformers is a record that tells how it behaves during one  *)
(* call: load (SentenceTransformer(...) returns), encode_raises (the texts *)
(* on which model.encode raises), cos_sim (the similarity to the target,   *)
(* in hundredths, by declared skill) and cos_sim_raises (the declared      *)
(* skills on which util.pytorch_cos_sim raises).  Confidences are in       *)
(* hundredths.                                                             *)
(***************************************************************************)
EXACT_MATCH_SCORE == 100

ONTOLOGY_MATCH_SCORE == 95

SEMANTIC_THRESHOLD == 75

\* SkillMatcher.__init__
SkillMatcher(use_embeddings, EMBEDDINGS_AVAILABLE) ==
  [use_embeddings |-> use_embeddings /\ EMBEDDINGS_AVAILABLE,
   model |-> None,
   _embeddings_cache |-> {}]

\* what a call leaves: the matcher, the embedding returned (the text stands
\* for its tensor) and the exception raised
Embedded(self, embedding, raised) ==
  [self |-> self, embedding |-> embedding, raised |-> raised]

\* _get_embedding from the cache lookup on
Encode(self, text, sentence_transformers) ==
  IF text \in self._embeddings_cache THEN Embedded(self, text, None)
  ELSE IF self.model = None THEN Embedded(self, None, None)
  ELSE IF text \in sentence_transformers.encode_raises
    THEN Embedded(self, None, "Exception")
  ELSE Embedded([self EXCEPT !._embeddings_cache = @ \cup {text}], text, None)

_get_embedding(self, text, sentence_transformers) ==
  IF self.model = None /\ self.use_embeddings
    THEN IF sentence_transformers.load
           THEN Encode([self EXCEPT !.model = "all-MiniLM-L6-v2"], text,
                       sentence_transformers)
           ELSE Embedded([self EXCEPT !.use_embeddings = FALSE], None, None)
    ELSE Encode(self, text, sentence_transformers)

\* the tuple match_skill returns, with the exception that leaves it
MatchResult(is_match, confidence, matched_skill) ==
  [raised |-> None, is_match |-> is_match, confidence |-> confidence,
   matched_skill |-> matched_skill]

NoMatch == MatchResult(FALSE, 0, None)

\* strategies 1 to 3: the declared skills
DeclaredMatch(jd_skill, resume_skills) ==
  LET exact == FirstIdx([i \in 1..Len(resume_skills) |->
                 strip(lower(resume_skills[i])) = strip(lower(jd_skill))])
      canonical == FirstIdx([i \in 1..Len(resume_skills) |->
                     normalize(resume_skills[i]) = normalize(jd_skill)])
      alias == FirstIdx([i \in 1..Len(resume_skills) |->
                 are_equivalent(jd_skill, resume_skills[i])])
  IN IF exact > 0 THEN MatchResult(TRUE, EXACT_MATCH_SCORE, resume_skills[exact])
     ELSE IF canonical > 0
       THEN MatchResult(TRUE, ONTOLOGY_MATCH_SCORE, resume_skills[canonical])
     ELSE IF alias > 0
       THEN MatchResult(TRUE, ONTOLOGY_MATCH_SCORE, resume_skills[alias])
     ELSE NoMatch

FoundInText(name) == MatchResult(TRUE, 85, "[found in text: " \o name \o "]")

\* strategy 4: the resume text
TextMatch(jd_skill, resume_text) ==
  IF resume_text = "" THEN NoMatch
  ELSE IF Contains(lower(resume_text), normalize(jd_skill))
    THEN FoundInText(normalize(jd_skill))
  ELSE IF Contains(lower(resume_text), strip(lower(jd_skill)))
    THEN FoundInText(strip(lower(jd_skill)))
  ELSE NoMatch

\* what the semantic strategy leaves: the matcher, the tuple to return
\* (NoMatch when it returns nothing) and the exception raised
Semantic(self, result, raised) == [self |-> self, ret |-> result, raised |-> raised]

Best(best_score, best_match) == [score |-> best_score, match |-> best_match]

\* the loop over the declared skills, from the i-th on
RECURSIVE SemanticLoop(_, _, _, _, _)
SemanticCompare(e, resume_skills, i, best, sentence_transformers) ==
  IF e.raised # None THEN Semantic(e.self, NoMatch, e.raised)
  ELSE IF e.embedding = None
    THEN SemanticLoop(e.self, resume_skills, i + 1, best, sentence_transformers)
  ELSE IF resume_skills[i] \in sentence_transformers.cos_sim_raises
    THEN Semantic(e.self, NoMatch, "Exception")
  ELSE SemanticLoop(e.self, resume_skills, i + 1,
                    IF sentence_transformers.cos_sim[resume_skills[i]] > best.score
                      THEN Best(sentence_transformers.cos_sim[resume_skills[i]],
                                resume_skills[i])
                      ELSE best,
                    sentence_transformers)

SemanticLoop(self, resume_skills, i, best, sentence_transformers) ==
  IF i > Len(resume_skills)
    THEN IF best.score >= SEMANTIC_THRESHOLD
           THEN Semantic(self, MatchResult(TRUE, best.score, best.match), None)
           ELSE Semantic(self, NoMatch, None)
    ELSE SemanticCompare(_get_embedding(self, resume_skills[i], sentence_transformers),
                         resume_skills, i, best, sentence_transformers)

\* the body of the try block, from the embedding of the target on
SemanticTry(jd_embedding, resume_skills, sentence_transformers) ==
  IF jd_embedding.raised # None
    THEN Semantic(jd_embedding.self, NoMatch, jd_embedding.raised)
  ELSE IF jd_embedding.embedding = None THEN Semantic(jd_embedding.self, NoMatch, None)
  ELSE SemanticLoop(jd_embedding.self, resume_skills, 1, Best(0, None),
                    sentence_transformers)

\* a try block without its except clause
SemanticUnguarded(attempt) == attempt

\* except Exception: the error is logged and the strategy returns nothing
SemanticGuarded(attempt) == [attempt EXCEPT !.raised = None]

\* strategy 5: semantic matching
SemanticMatch(self, jd_skill, resume_skills, sentence_transformers) ==
  IF self.use_embeddings /\ resume_skills # <<>>
    THEN SemanticGuarded(
           SemanticTry(_get_embedding(self, jd_skill, sentence_transformers),
                       resume_skills, sentence_transformers))
    ELSE Semantic(self, NoMatch, None)

\* strategy 6: the related skills of the target, in the order of the table
RelatedMatch(jd_skill, resume_skills) ==
  LET related == get_related(normalize(jd_skill))
      normalized == [i \in 1..Len(resume_skills) |-> normalize(resume_skills[i])]
      rel == FirstIdx([k \in 1..Len(related) |-> related[k] \in Range(normalized)])
  IN IF rel = 0 THEN NoMatch
     ELSE MatchResult(TRUE, 70,
            resume_skills[FirstIdx([i \in 1..Len(resume_skills) |->
                                      normalized[i] = related[rel]])]
            \o " (related)")

\* what the call leaves: the matcher and the tuple returned
Called(self, result) == [self |-> self, ret |-> result]

\* match_skill from strategy 5 on
MatchAfterSemantic(semantic, jd_skill, resume_skills) ==
  IF semantic.raised # None
    THEN Called(semantic.self, [NoMatch EXCEPT !.raised = semantic.raised])
  ELSE IF semantic.ret.is_match THEN Called(semantic.self, semantic.ret)
  ELSE Called(semantic.self, RelatedMatch(jd_skill, resume_skills))

\* match_skill from strategy 4 on
MatchAfterDeclared(self, declared, jd_skill, resume_skills, resume_text, sentence_transformers) ==
  IF declared.is_match THEN Called(self, declared)
  ELSE IF TextMatch(jd_skill, resume_text).is_match
    THEN Called(self, TextMatch(jd_skill, resume_text))
  ELSE MatchAfterSemantic(
         SemanticMatch(self, jd_skill, resume_skills, sentence_transformers),
         jd_skill, resume_skills)

\* SkillMatcher.match_skill
match_skill(self, jd_skill, resume_skills, resume_text, sentence_transformers) ==
  MatchAfterDeclared(self, DeclaredMatch(jd_skill, resume_skills), jd_skill,
                     resume_skills, resume_text, sentence_transformers)
(***************************************************************************)
(* The pipeline: a parsed resume and a parsed job description are analysed *)
(* (GapAnalysisAgent.analyze) and the result is scored                     *)
(* (ATSScorerAgent.score).  The scorer's command line reads the resume,    *)
(* the job description and the gap analysis from a file, so a gap analysis *)
(* that no analysis produced can reach score as well.                      *)
(* Optional string fields hold "" when absent: the code only tests them    *)
(* for truth.  An education entry is kept as its degree, an experience     *)
(* entry without its duration: neither agent reads more.                   *)
(***************************************************************************)
Experience(title, company, description, skills_used) ==
  [title |-> title, company |-> company, description |-> description,
   skills_used |-> skills_used]

ParsedResume(contact, summary, skills, experience, education, certifications, raw_text) ==
  [email |-> contact, phone |-> contact, linkedin |-> contact, github |-> contact,
   summary |-> summary, skills |-> skills, experience |-> experience,
   education |-> education, projects |-> <<>>, certifications |-> certifications,
   raw_text |-> raw_text]

ParsedJobDescription(role, required_skills, preferred_skills, tools, keywords, seniority) ==
  [role |-> role, required_skills |-> required_skills,
   preferred_skills |-> preferred_skills, tools |-> tools, keywords |-> keywords,
   seniority |-> seniority]

GapAnalysis(matching_skills, missing_skills, tools, keywords) ==
  [matching_skills |-> matching_skills, missing_skills |-> missing_skills,
   matching_tools |-> tools[1], missing_tools |-> tools[2],
   matching_keywords |-> keywords[1], missing_keywords |-> keywords[2],
   experience_match |-> TRUE, seniority_match |-> TRUE,
   overall_match_percentage |-> 500]

BackendJob ==
  Experience("Backend Engineer", "Acme",
             <<"Built Python services on Docker", "Tuned SQL queries",
               "Ran Kafka pipelines", "Led code reviews">>, <<"Python", "Kafka">>)

PlatformJob ==
  Experience("Senior Backend Engineer", "Globex",
             <<"Python and Go microservices", "Terraform on AWS",
               "Docker images for CI", "SQL migrations", "Mentored engineers">>, <<>>)

Internship == Experience("Intern", "Initech", <<"Wrote reports">>, <<>>)

SkillLists ==
  {<<>>, <<"Python", "Docker", "PostgreSQL">>,
   <<"python", "React", "AWS", "Git", "Kafka", "Go">>}

ExperienceLists == {<<>>, <<Internship>>, <<BackendJob, PlatformJob>>}

\* a bare resume and a complete one
Resumes ==
  {ParsedResume("", "", s, e, <<>>, <<>>, "") : s \in SkillLists, e \in ExperienceLists}
  \cup {ParsedResume("x", "Backend engineer", s, e, <<"BSc">>, <<"AWS Certified">>,
                     "Built REST services with Kafka and Terraform") :
          s \in SkillLists, e \in ExperienceLists}

RequiredLists ==
  {<<>>, <<"Python", "SQL", "Docker">>,
   <<"Python", "Kafka", "Terraform", "Go", "Rust", "Java">>}

PreferredLists == {<<>>, <<"React", "Elixir">>}

JobDescriptions ==
  {ParsedJobDescription("Backend Engineer", req, pref, <<"Git", "Jira", "Jenkins">>,
                        <<"REST", "Agile">>, sen) :
     req \in RequiredLists, pref \in PreferredLists, sen \in {"entry", "senior"}}

\* gap analyses read from a file: one that reports everything matched, one
\* that reports everything missing, and three that report skills missing which
\* the job description at hand need not list
LoadedGaps ==
  {GapAnalysis(<<"PYTHON", "sql", "Docker", "Kafka", "Terraform", "Go", "Rust", "Java",
                 "React", "Elixir", "Haskell", "Scala", "Perl">>, <<>>,
               <<<<"Git", "Jira", "Jenkins">>, <<>>>>, <<<<"REST", "Agile", "Cloud">>, <<>>>>),
   GapAnalysis(<<>>,
               <<SkillGap("Python", "required", "critical"),
                 SkillGap("Kafka", "required", "medium"),
                 SkillGap("Terraform", "required", "medium"),
                 SkillGap("Go", "required", "medium"),
                 SkillGap("React", "preferred", "high")>>,
               <<<<>>, <<"Git", "Jira", "Jenkins">>>>,
               <<<<>>, <<"REST", "Agile", "Cloud", "Scrum">>>>),
   GapAnalysis(<<"Python", "SQL", "Docker", "Kafka", "Terraform", "Rust", "React">>,
               <<SkillGap("Go", "required", "medium"),
                 SkillGap("Java", "required", "high")>>,
               <<<<"Git", "Jira", "Jenkins">>, <<>>>>, <<<<"REST", "Agile">>, <<>>>>),
   GapAnalysis(<<"Python", "SQL", "Docker", "Kafka", "Terraform", "Go", "Rust", "Java">>,
               <<SkillGap("Django", "required", "high"),
                 SkillGap("Spring", "required", "high"),
                 SkillGap("NodeJS", "required", "high")>>,
               <<<<"Git", "Jira", "Jenkins">>, <<>>>>, <<<<"REST", "Agile">>, <<>>>>),
   GapAnalysis(<<"Python", "SQL", "Docker", "Kafka", "Terraform", "Go", "Rust", "Java">>,
               <<SkillGap("Django", "required", "high"),
                 SkillGap("Spring", "required", "high"),
                 SkillGap("NodeJS", "required", "high"),
                 SkillGap("FastAPI", "required", "high")>>,
               <<<<"Git", "Jira", "Jenkins">>, <<>>>>, <<<<"REST", "Agile">>, <<>>>>)}

Init ==
  /\ resume \in Resumes
  /\ jd \in JobDescriptions
  /\ gap_analysis = None
  /\ ats = None
  /\ matcher = None
  /\ pc = "start"
  /\ args = <<>>
  /\ ret = None

\* GapAnalysisAgent.analyze(resume, jd)
Analyze ==
  /\ pc = "start"
  /\ gap_analysis' = analyze(resume, jd)
  /\ pc' = "analyzed"
  /\ UNCHANGED <<resume, jd, ats, args, ret, matcher>>

\* the scorer's command line: the gap analysis comes from the input file
LoadGap ==
  /\ pc = "start"
  /\ gap_analysis' \in LoadedGaps
  /\ pc' = "analyzed"
  /\ UNCHANGED <<resume, jd, ats, args, ret, matcher>>

\* ATSScorerAgent.score(resume, jd, gap_analysis)
Score ==
  /\ pc = "analyzed"
  /\ ats' = score(resume, jd, gap_analysis)
  /\ pc' = "scored"
  /\ UNCHANGED <<resume, jd, gap_analysis, args, ret, matcher>>

Next == Analyze \/ LoadGap \/ Score

Spec == Init /\ [][Next]_vars

(***************************************************************************)
(* Properties of the pipeline                                              *)
(***************************************************************************)
\* C1: for every resume, job description and gap analysis passed to score,
\* the call returns a result whose overall score and whose skill match,
\* keyword, formatting and experience alignment scores are integers in 0..100.
C1_ScoresInRange ==
  pc = "scored" =>
    /\ ats.raised = None
    /\ ats.overall_score \in 0..100
    /\ ats.skill_match_score \in 0..100
    /\ ats.keyword_score \in 0..100
    /\ ats.formatting_score \in 0..100
    /\ ats.experience_alignment_score \in 0..100

\* a result whose penalties outweigh the blended score: the clamp acts
C1_Witness ==
  /\ pc = "scored"
  /\ ats.raised = None
  /\ ats.overall_score = 0
  /\ Len(ats.issues) >= 6

\* C3: when the job description lists no required skill, whatever the resume
\* and the gap analysis hold, score returns the skill score 70 and raises no
\* ZeroDivisionError.
C3_EmptyRequiredNeutral ==
  (pc = "scored" /\ jd.required_skills = <<>>) =>
    (ats.raised = None /\ ats.skill_match_score = 70)

\* no required skill, and a gap analysis that still reports missing ones
C3_Witness ==
  /\ pc = "scored"
  /\ jd.required_skills = <<>>
  /\ gap_analysis.missing_skills # <<>>
  /\ ats.raised = None
  /\ ats.skill_match_score = 70

\* the preferred skills of j that the analysis of r does not match
UnmatchedPreferred(r, j) ==
  {i \in 1..Len(j.preferred_skills) :
     ~_match_skill(j.preferred_skills[i], r.skills, _get_full_resume_text(r),
                   "preferred").matched}

\* j without the preferred skills at the positions in drop
WithoutPreferred(j, drop) ==
  [j EXCEPT !.preferred_skills =
     SelectIdx(j.preferred_skills, [i \in 1..Len(j.preferred_skills) |-> i \notin drop], 1)]

\* C6: analyze then score on a job description that lists preferred skills
\* the resume does not match gives an overall score no lower than analyze
\* then score on the same job description with any of those skills removed.
C6_UnmatchedPreferredHarmless ==
  (pc = "scored" /\ gap_analysis = analyze(resume, jd)) =>
    \A drop \in SUBSET UnmatchedPreferred(resume, jd) :
      \A gap \in {analyze(resume, WithoutPreferred(jd, drop))} :
        ats.overall_score >= score(resume, WithoutPreferred(jd, drop), gap).overall_score

\* one preferred skill is matched and earns the bonus, the other is not
C6_Witness ==
  /\ pc = "scored"
  /\ gap_analysis = analyze(resume, jd)
  /\ Cardinality(UnmatchedPreferred(resume, jd)) = 1
  /\ Len(jd.preferred_skills) = 2
  /\ ats.overall_score > 0


(***************************************************************************)
(* _determine_bucket called on its own: args holds the three arguments.    *)
(***************************************************************************)
MaxCritical == 5
RateStep == 50

\* missing_critical lists: only their emptiness and length are read
MissingCriticalLists ==
  {[i \in 1..n |-> name] : n \in 0..MaxCritical, name \in {"python", "docker"}}

\* match rates in thousandths: a grid and the neighbours of the thresholds
MatchRates == {r \in 0..1000 : r % RateStep = 0} \cup {599, 601, 699, 701}

\* skill_details dicts: with other keys, and one without match_rate
SkillDetails ==
  {[match_rate |-> r] : r \in MatchRates}
  \cup {[match_rate |-> r, required_matched |-> 3, required_total |-> 4] : r \in {0, 700}}
  \cup {[required_total |-> 0]}

InitBucket ==
  /\ args \in [score : 0..100, missing_critical : MissingCriticalLists,
               skill_details : SkillDetails]
  /\ pc = "call"
  /\ ret = None
  /\ resume = None /\ jd = None /\ gap_analysis = None /\ ats = None /\ matcher = None

DetermineBucket ==
  /\ pc = "call"
  /\ ret' = _determine_bucket(args.score, args.missing_critical, args.skill_details)
  /\ pc' = "done"
  /\ UNCHANGED <<resume, jd, gap_analysis, ats, args, matcher>>

NextBucket == DetermineBucket

SpecBucket == InitBucket /\ [][NextBucket]_vars

\* C2: for every score in 0..100, every missing_critical list and every
\* skill_details dict, _determine_bucket returns one of the four buckets, and
\* the bucket depends only on the score, on the number of missing critical
\* skills and on the match rate (0 when the dict has none).
C2_BucketTotalPure ==
  pc = "done" =>
    /\ ret \in ATSBucket
    /\ ret = _determine_bucket(args.score,
                               [i \in 1..Len(args.missing_critical) |-> "aws"],
                               [match_rate |-> Get(args.skill_details, "match_rate", 0)])

\* the last branch: a score below 35 with no critical skill missing
C2_Witness ==
  /\ pc = "done"
  /\ args.score = 34
  /\ args.missing_critical = <<>>
  /\ ret = NOT_ATS_FRIENDLY

(***************************************************************************)
(* _calculate_skill_score over a growing set of matched required skills:   *)
(* the job description lists n required skills, the gap analysis reports   *)
(* some of them missing, and each step reports one more of them matched.   *)
(***************************************************************************)
MaxRequired == 15

SkillNames ==
  <<"Python", "Docker", "Kafka", "Terraform", "Go", "Rust", "Java", "Scala",
    "Perl", "Ruby", "Swift", "Kotlin", "Haskell", "Elixir", "Erlang", "Clojure",
    "Fortran", "COBOL", "Lisp", "Ada">>

\* how the gap analysis spells a matched skill
Spelled(skill, style) == IF style = "upper" THEN upper(skill) ELSE skill

\* the gap analysis of a job description whose required skills are missing
\* as listed: the others are matched, in the job description's order
GapWithMissing(j, missing, style) ==
  LET IsMatched(skill) == \A i \in 1..Len(missing) : missing[i].skill # skill
      matched == SelectSeq(j.required_skills, IsMatched)
  IN GapAnalysis([i \in 1..Len(matched) |-> Spelled(matched[i], style)]
                   \o j.preferred_skills,
                 missing, <<<<>>, <<>>>>, <<<<>>, <<>>>>)

InitSkill ==
  /\ \E n \in 1..MaxRequired, extra \in {<<>>, <<"React">>}, style \in {"same", "upper"} :
       /\ jd = ParsedJobDescription("Backend Engineer", Take(SkillNames, n),
                                    extra, <<>>, <<>>, "mid")
       /\ gap_analysis =
            GapWithMissing(jd, [i \in 1..n |-> SkillGap(SkillNames[i], "required", "medium")],
                           style)
       /\ args = style
  /\ ret = _calculate_skill_score(gap_analysis, jd)
  /\ pc = "matching"
  /\ resume = None /\ ats = None /\ matcher = None

\* one more required skill is reported matched, nothing else changes
MatchOneMore ==
  /\ pc = "matching"
  /\ \E i \in {1, Len(gap_analysis.missing_skills)} \cap DOMAIN gap_analysis.missing_skills :
       gap_analysis' =
         GapWithMissing(jd, SubSeq(gap_analysis.missing_skills, 1, i - 1)
                              \o SubSeq(gap_analysis.missing_skills, i + 1,
                                        Len(gap_analysis.missing_skills)), args)
  /\ ret' = _calculate_skill_score(gap_analysis', jd)
  /\ UNCHANGED <<resume, jd, ats, pc, args, matcher>>

NextSkill == MatchOneMore

SpecSkill == InitSkill /\ [][NextSkill]_vars

\* C5: with the required list fixed, reporting one more required skill
\* matched never lowers the skill score.
C5_SkillScoreMonotone == [][ret'.score >= ret.score]_vars

\* four of five required skills matched: the score has climbed to 88
C5_Witness ==
  /\ pc = "matching"
  /\ ret.details.required_matched = 4
  /\ ret.details.required_total = 5
  /\ ret.score = 88

(***************************************************************************)
(* _match_skill called on its own: args holds the target skill, the        *)
(* declared skills and the resume text.                                    *)
(***************************************************************************)
Targets ==
  {"Python", "python ", "sql ", "SQL", "K8s", "Go", "React.js", "Rust", "Java", "node"}

DeclaredLists ==
  {<<>>, <<"python">>, <<"PYTHON", "Docker">>, <<"sql ">>, <<"PostgreSQL">>,
   <<"kubernetes", "golang">>, <<"python ", "react">>, <<"Go", "k8s", "Sql">>,
   <<"JavaScript">>, <<"NodeJS", "MySQL">>}

Texts ==
  {"", "Deployed Go services on k8s with Rust tooling",
   "JavaScript and PostgreSQL at Google"}

InitMatch ==
  /\ args \in [jd_skill : Targets, resume_skills : DeclaredLists, resume_text : Texts]
  /\ pc = "call"
  /\ ret = None
  /\ resume = None /\ jd = None /\ gap_analysis = None /\ ats = None /\ matcher = None

MatchSkill ==
  /\ pc = "call"
  /\ ret' = _match_skill(args.jd_skill, args.resume_skills, args.resume_text, "required")
  /\ pc' = "done"
  /\ UNCHANGED <<resume, jd, gap_analysis, ats, args, matcher>>

NextMatch == MatchSkill

SpecMatch == InitMatch /\ [][NextMatch]_vars

\* the target equals one of the declared skills, case-insensitively
DeclaredEqual(target, skills) ==
  \E i \in 1..Len(skills) : lower(skills[i]) = lower(target)

\* C4: a target that equals a declared skill case-insensitively is matched
\* with confidence 1.0 by the exact strategy; a target matched while no
\* declared skill equals it has a confidence strictly below 1.0.
C4_ExactIffDeclaredEqual ==
  pc = "done" =>
    /\ DeclaredEqual(args.jd_skill, args.resume_skills) =>
         (ret.matched /\ ret.confidence = 100 /\ ret.match_strategy = "exact_match")
    /\ (ret.matched /\ ~DeclaredEqual(args.jd_skill, args.resume_skills)) =>
         ret.confidence < 100

(***************************************************************************)
(* _calculate_issue_penalty over a growing list of issues: args holds the  *)
(* list, ret the penalty of the list.                                      *)
(***************************************************************************)
MaxIssues == 4

InitPenalty ==
  /\ args = <<>>
  /\ ret = _calculate_issue_penalty(<<>>)
  /\ pc = "issues"
  /\ resume = None /\ jd = None /\ gap_analysis = None /\ ats = None /\ matcher = None

AddIssue ==
  /\ pc = "issues"
  /\ Len(args) < MaxIssues
  /\ \E severity \in Range(Severities) :
       args' = Append(args, ATSIssue("Formatting", severity))
  /\ ret' = _calculate_issue_penalty(args')
  /\ UNCHANGED <<resume, jd, gap_analysis, ats, pc, matcher>>

NextPenalty == AddIssue

SpecPenalty == InitPenalty /\ [][NextPenalty]_vars

\* the points deducted for one tier
Deducted(issues, severity) == 0 - TierPenalty(issues, severity)

\* C9: for any list of issues the points deducted for the critical tier
\* never exceed 20, for the high tier 12, for the medium tier 6 and for the
\* low tier 3.
C9_TierPenaltyCapped ==
  /\ Deducted(args, "critical") <= 20
  /\ Deducted(args, "high") <= 12
  /\ Deducted(args, "medium") <= 6
  /\ Deducted(args, "low") <= 3

\* the per-issue amount times n until the cap of the tier is reached
Graduated(n, per_issue, cap) == Min(per_issue * n, cap)

\* C10: a tier with n issues is charged the per-issue amount times n (8 per
\* critical, 4 per high, 2 per medium, 1 per low) until the tier cap is
\* reached: one issue costs the per-issue amount, and less than three do.
C10_PenaltyGraduated ==
  /\ Deducted(args, "critical") = Graduated(SeverityCount(args, "critical"), 8, 20)
  /\ Deducted(args, "high") = Graduated(SeverityCount(args, "high"), 4, 12)
  /\ Deducted(args, "medium") = Graduated(SeverityCount(args, "medium"), 2, 6)
  /\ Deducted(args, "low") = Graduated(SeverityCount(args, "low"), 1, 3)

(***************************************************************************)
(* The worked scenario: four required skills, two preferred ones; the      *)
(* candidate declares the first two and mentions the third only in the     *)
(* text of the resume.  args holds the six skill names.                    *)
(***************************************************************************)
ScenarioNames ==
  {<<"A", "B", "C", "D", "E", "F">>,
   <<"Python", "Docker", "Kafka", "Terraform", "Rust", "Elixir">>}

\* the declared skills, as the job description spells them or not
Declarations(names) ==
  {<<names[1], names[2]>>, <<names[2], names[1]>>, <<upper(names[1]), lower(names[2])>>}

Project(name, description, technologies) ==
  [name |-> name, description |-> description, technologies |-> technologies]

\* the places of the resume text where the third skill can be mentioned
Mentioning(declared, skill, contact) ==
  {ParsedResume(contact, "", declared, <<>>, <<>>, <<>>, "Worked with " \o skill \o " daily"),
   ParsedResume(contact, "", declared,
                <<Experience("Engineer", "Acme", <<"Operated " \o skill \o " in production">>,
                             <<>>)>>, <<>>, <<>>, ""),
   [ParsedResume(contact, "", declared, <<>>, <<>>, <<>>, "")
      EXCEPT !.projects = <<Project("Pipeline", "Built on " \o lower(skill), <<>>)>>],
   ParsedResume(contact, "", declared, <<>>, <<>>, <<"Certified " \o skill \o " Associate">>, "")}

InitScenario ==
  /\ args \in ScenarioNames
  /\ \E declared \in Declarations(args), contact \in {"", "x"} :
       resume \in Mentioning(declared, args[3], contact)
  /\ \E seniority \in {"entry", "mid", "senior"} :
       jd = ParsedJobDescription("Backend Engineer", SubSeq(args, 1, 4), SubSeq(args, 5, 6),
                                 <<>>, <<>>, seniority)
  /\ gap_analysis = None /\ ats = None /\ matcher = None /\ ret = None
  /\ pc = "start"

NextScenario == Analyze \/ Score

SpecScenario == InitScenario /\ [][NextScenario]_vars

\* how _match_skill matches a required skill of the scenario
ScenarioMatch(k) ==
  _match_skill(args[k], resume.skills, _get_full_resume_text(resume), "required")

\* what analyze reports in the scenario
ScenarioAnalysis ==
  /\ Len(gap_analysis.matching_skills) = 3
  /\ \A k \in 1..3 : ScenarioMatch(k).matched
  /\ ScenarioMatch(1).match_strategy = "exact_match"
  /\ ScenarioMatch(2).match_strategy = "exact_match"
  /\ ScenarioMatch(3).match_strategy = "text_appearance"
  /\ SkillsOf(MissingRequired(gap_analysis)) = <<args[4]>>
  /\ _calculate_skill_score(gap_analysis, jd).details.match_rate = 750

\* C7 as stated: in the scenario analyze reports the first three skills
\* matched (exact, exact, free text) and the fourth as the only missing
\* required one, the match ratio is 75%, and the skill score lies in 55..75.
C7_ScenarioBand55To75 ==
  pc = "scored" => (ScenarioAnalysis /\ ats.skill_match_score \in 55..75)

\* C7, amended: the analysis is as stated and the ratio 75%, and the skill
\* score is 84, inside the band 72..88 the curve gives to ratios from 60%
\* up to 80%.
C7_ScenarioScore84 ==
  pc = "scored" =>
    (ScenarioAnalysis /\ ats.skill_match_score = 84 /\ ats.skill_match_score \in 72..88)

\* the scenario scored, the third skill found in the text of a project
C7_Witness ==
  /\ pc = "scored"
  /\ resume.projects # <<>>
  /\ args[3] = "C"
  /\ gap_analysis.matching_skills = <<"A", "B", "C">>
  /\ ats.skill_match_score = 84

(***************************************************************************)
(* The empty candidate: no declared skills, no experience, no project, no  *)
(* certification and no text, against a job description with three         *)
(* required skills.                                                        *)
(***************************************************************************)
EmptyResumes ==
  {[ParsedResume(email, summary, <<>>, <<>>, education, <<>>, "")
      EXCEPT !.linkedin = linkedin] :
     email \in {"", "ada@example.org"}, linkedin \in {"", "linkedin.com/in/ada"},
     summary \in {"", "Engineer"}, education \in {<<>>, <<"BSc">>}}

RequiredTriples ==
  {<<"Python", "Docker", "Kafka">>, <<"PostgreSQL", "REST", "Git">>,
   <<"Haskell", "COBOL", "Fortran">>}

SeniorityLevels == {"entry", "junior", "mid", "senior", "lead", "principal"}

InitEmpty ==
  /\ resume \in EmptyResumes
  /\ \E required \in RequiredTriples, keywords \in {<<>>, <<"Agile", "Cloud">>},
        seniority \in SeniorityLevels :
       jd = ParsedJobDescription("Backend Engineer", required, <<>>, <<>>, keywords,
                                 seniority)
  /\ gap_analysis = None /\ ats = None /\ matcher = None /\ ret = None
  /\ args = <<>>
  /\ pc = "start"

NextEmpty == Analyze \/ Score

SpecEmpty == InitEmpty /\ [][NextEmpty]_vars

\* the entry of the importance table for a skill, "medium" when it has none
TableImportance(skill) == Get(SKILL_IMPORTANCE, strip(lower(skill)), "medium")

\* C8: for the empty candidate and three required skills, analyze reports
\* the three required skills missing with importance "required" and the
\* category of the importance table, and score returns the overall score 0
\* and the bucket NOT_ATS_FRIENDLY.
C8_EmptyCandidateScoresZero ==
  pc = "scored" =>
    /\ gap_analysis.matching_skills = <<>>
    /\ gap_analysis.missing_skills =
         [i \in 1..3 |-> SkillGap(jd.required_skills[i], "required",
                                  TableImportance(jd.required_skills[i]))]
    /\ ats.raised = None
    /\ ats.overall_score = 0
    /\ ats.bucket = NOT_ATS_FRIENDLY

(***************************************************************************)
(* The hard caps of score                                                  *)
(***************************************************************************)
\* the blended base score plus preferred bonus plus issue penalty
UncappedScore(r, j, gap) ==
  BaseScore(_calculate_skill_score(gap, j).score, _calculate_keyword_score(gap),
            _calculate_formatting_score(r), _calculate_experience_score(r, j))
  + _calculate_preferred_bonus(gap, j)
  + _calculate_issue_penalty(_identify_issues(r, j, gap))

\* what the hard-cap pass may do to an uncapped score, given the number of
\* truly critical missing skills
CapBounds(overall, uncapped, critical) ==
  /\ critical >= 4 => overall <= 55
  /\ critical = 3 => overall <= 65
  /\ critical = 2 => overall <= 75
  /\ critical <= 1 => overall = Max(0, Min(100, uncapped))
  /\ overall <= Max(0, Min(100, uncapped))

BucketRank(bucket) ==
  CASE bucket = NOT_ATS_FRIENDLY -> 0
    [] bucket = WEAK -> 1
    [] bucket = MODERATE -> 2
    [] bucket = STRONG -> 3

\* C12: for a fixed score and match rate, _determine_bucket called with more
\* truly critical missing skills never returns a better bucket than with
\* fewer of them.
C12_MoreCriticalNeverBetter ==
  pc = "done" =>
    \A fewer \in 0..Len(args.missing_critical) :
      BucketRank(ret) <=
        BucketRank(_determine_bucket(args.score, Take(args.missing_critical, fewer),
                                     args.skill_details))

(***************************************************************************)
(* SkillOntology.normalize called on a string and then on its own result:  *)
(* args holds the arguments of the calls made so far.                      *)
(***************************************************************************)
\* strings the ontology does not know
UnknownSkills == {"", "Haskell", "cobol", "Java Script", "rest-api"}

\* how a caller may write a name
Writings(name) == {name, upper(name), "  " \o upper(name) \o " "}

NormalizeInputs == UNION {Writings(name) : name \in AliasNames \cup UnknownSkills}

InitNormalize ==
  /\ \E skill \in NormalizeInputs : args = <<skill>>
  /\ pc = "call"
  /\ ret = None
  /\ resume = None /\ jd = None /\ gap_analysis = None /\ ats = None /\ matcher = None

Normalize ==
  /\ pc = "call"
  /\ ret' = normalize(args[1])
  /\ pc' = "normalized"
  /\ UNCHANGED <<resume, jd, gap_analysis, ats, args, matcher>>

\* the result is resolved again
NormalizeAgain ==
  /\ pc = "normalized"
  /\ args' = Append(args, ret)
  /\ ret' = normalize(ret)
  /\ pc' = "twice"
  /\ UNCHANGED <<resume, jd, gap_analysis, ats, matcher>>

NextNormalize == Normalize \/ NormalizeAgain

SpecNormalize == InitNormalize /\ [][NextNormalize]_vars

\* the ontology entries that list a name as their key or as an alias
EntriesListing(name) == {k \in 1..Len(ONTOLOGY) : name \in OntologyNames(k)}

\* C16: normalize returns for every string; a name of the ontology resolves
\* to the key of the one entry that lists it, any other string to itself in
\* lower case and trimmed; resolving the result again returns it unchanged.
C16_NormalizeIdempotent ==
  /\ pc = "normalized" =>
       IF strip(lower(args[1])) \in AliasNames
         THEN /\ Cardinality(EntriesListing(strip(lower(args[1])))) = 1
              /\ \A k \in EntriesListing(strip(lower(args[1]))) : ret = ONTOLOGY[k].skill
         ELSE ret = strip(lower(args[1]))
  /\ pc = "twice" => ret = args[2]

\* an alias written in upper case with blanks around it, resolved twice
C16_Witness ==
  /\ pc = "twice"
  /\ args = <<"  K8S ", "kubernetes">>
  /\ ret = "kubernetes"

(***************************************************************************)
(* GapAnalysisAgent._normalize_skill called on a string and then on its    *)
(* own result.                                                             *)
(***************************************************************************)
ResolveInputs == UNION {Writings(name) : name \in IndexedNames \cup UnknownSkills}

InitResolve ==
  /\ \E skill \in ResolveInputs : args = <<skill>>
  /\ pc = "call"
  /\ ret = None
  /\ resume = None /\ jd = None /\ gap_analysis = None /\ ats = None /\ matcher = None

NormalizeSkill ==
  /\ pc = "call"
  /\ ret' = _normalize_skill(args[1])
  /\ pc' = "normalized"
  /\ UNCHANGED <<resume, jd, gap_analysis, ats, args, matcher>>

NormalizeSkillAgain ==
  /\ pc = "normalized"
  /\ args' = Append(args, ret)
  /\ ret' = _normalize_skill(ret)
  /\ pc' = "twice"
  /\ UNCHANGED <<resume, jd, gap_analysis, ats, matcher>>

NextResolve == NormalizeSkill \/ NormalizeSkillAgain

SpecResolve == InitResolve /\ [][NextResolve]_vars

\* C17: _normalize_skill applied to its own result returns it unchanged, the
\* values of the equivalence index included.
C17_NormalizeSkillIdempotent == pc = "twice" => ret = args[2]
(***************************************************************************)
(* The job description without any requirement: its required, preferred,   *)
(* tool and keyword lists are all empty.                                   *)
(***************************************************************************)
InitNoRequirement ==
  /\ resume \in Resumes \cup EmptyResumes
  /\ \E seniority \in SeniorityLevels :
       jd = ParsedJobDescription("Backend Engineer", <<>>, <<>>, <<>>, <<>>, seniority)
  /\ gap_analysis = None /\ ats = None /\ matcher = None /\ ret = None
  /\ args = <<>>
  /\ pc = "start"

NextNoRequirement == Analyze \/ Score

SpecNoRequirement == InitNoRequirement /\ [][NextNoRequirement]_vars

\* C18: for a job description whose four requirement lists are empty,
\* analyze returns, for every candidate, a gap analysis with an empty list of
\* missing skills and an overall match percentage of 100.
C18_NoRequirementNoGap ==
  pc = "analyzed" =>
    /\ gap_analysis.missing_skills = <<>>
    /\ gap_analysis.overall_match_percentage = 1000

(***************************************************************************)
(* The shared matcher: get_skill_matcher() constructs it once, and         *)
(* match_all_skills calls match_skill on it for one target after the       *)
(* other, with the same declared skills and resume text.  Two calls are    *)
(* followed.  The sentence_transformers package is installed or not, and   *)
(* during each call it behaves in one of the ways of Collaborators.        *)
(***************************************************************************)
MatcherTargets == {"java", "Go", "K8s", "React"}

MatcherDeclared == {<<>>, <<"JavaScript", "Vue">>, <<"Docker", "kube">>}

MatcherTexts == {"JavaScript developer at Google", "Services on k8s"}

\* where the collaborator raises during a call: nowhere, encoding the
\* target, encoding the last declared skill, or comparing the first
Failures(jd_skill, resume_skills) ==
  {[encode |-> {}, cos_sim |-> {}], [encode |-> {jd_skill}, cos_sim |-> {}]}
  \cup (IF resume_skills = <<>> THEN {}
        ELSE {[encode |-> {resume_skills[Len(resume_skills)]}, cos_sim |-> {}],
              [encode |-> {}, cos_sim |-> {resume_skills[1]}]})

\* the model loads or fails to load; no declared skill or one of them is as
\* similar to the target as the threshold, the others just below
Collaborators(jd_skill, resume_skills) ==
  {[load |-> load, encode_raises |-> fails.encode, cos_sim_raises |-> fails.cos_sim,
    cos_sim |-> [s \in Range(resume_skills) |->
                   IF s = similar THEN SEMANTIC_THRESHOLD ELSE SEMANTIC_THRESHOLD - 1]] :
     load \in BOOLEAN, fails \in Failures(jd_skill, resume_skills),
     similar \in Range(resume_skills) \cup {None}}

InitMatcher ==
  /\ \E EMBEDDINGS_AVAILABLE \in BOOLEAN :
       matcher = SkillMatcher(TRUE, EMBEDDINGS_AVAILABLE)
  /\ resume = None /\ jd = None /\ gap_analysis = None /\ ats = None
  /\ args = <<>>
  /\ ret = None
  /\ pc = "start"

\* the call matcher.match_skill(jd_skill, resume_skills, resume_text); args
\* keeps the matcher as it was before the call
CallMatchSkill(jd_skill, resume_skills, resume_text, sentence_transformers, done) ==
  /\ args' = [self |-> matcher, jd_skill |-> jd_skill, resume_skills |-> resume_skills,
              resume_text |-> resume_text,
              sentence_transformers |-> sentence_transformers]
  /\ \E called \in {match_skill(matcher, jd_skill, resume_skills, resume_text,
                                sentence_transformers)} :
       matcher' = called.self /\ ret' = called.ret
  /\ pc' = done
  /\ UNCHANGED <<resume, jd, gap_analysis, ats>>

MatchFirst ==
  /\ pc = "start"
  /\ \E jd_skill \in MatcherTargets, resume_skills \in MatcherDeclared,
        resume_text \in MatcherTexts :
       \E sentence_transformers \in Collaborators(jd_skill, resume_skills) :
         CallMatchSkill(jd_skill, resume_skills, resume_text, sentence_transformers,
                        "called")

\* the next target of match_all_skills, unless the first call raised
MatchNext ==
  /\ pc = "called"
  /\ ret.raised = None
  /\ \E jd_skill \in MatcherTargets :
       \E sentence_transformers \in Collaborators(jd_skill, args.resume_skills) :
         CallMatchSkill(jd_skill, args.resume_skills, args.resume_text,
                        sentence_transformers, "done")

NextMatcher == MatchFirst \/ MatchNext

SpecMatcher == InitMatcher /\ [][NextMatcher]_vars

\* name occurs in text, and every occurrence is part of a longer word
OnlyInsideLongerWord(name, text) ==
  Contains(lower(text), lower(name)) /\ ~SearchWord(name, text)

\* C13: the free-text strategy of match_skill is a whole-word search: a target
\* that matches no declared skill and occurs in the text only as part of a
\* longer word (its canonical form occurring as no word either) is not
\* reported as found in text.
C13_TextSearchWholeWord ==
  (/\ pc # "start"
   /\ ~DeclaredMatch(args.jd_skill, args.resume_skills).is_match
   /\ OnlyInsideLongerWord(strip(lower(args.jd_skill)), args.resume_text)
   /\ ~SearchWord(normalize(args.jd_skill), args.resume_text))
  => /\ ret # FoundInText(strip(lower(args.jd_skill)))
     /\ ret # FoundInText(normalize(args.jd_skill))

\* what match_skill returns from the strategies other than the semantic one
WithoutSemantic(jd_skill, resume_skills, resume_text) ==
  IF DeclaredMatch(jd_skill, resume_skills).is_match
    THEN DeclaredMatch(jd_skill, resume_skills)
  ELSE IF TextMatch(jd_skill, resume_text).is_match THEN TextMatch(jd_skill, resume_text)
  ELSE RelatedMatch(jd_skill, resume_skills)

\* the call reaches the semantic strategy
SemanticReached(call) ==
  /\ ~DeclaredMatch(call.jd_skill, call.resume_skills).is_match
  /\ ~TextMatch(call.jd_skill, call.resume_text).is_match
  /\ call.self.use_embeddings
  /\ call.resume_skills # <<>>

\* the texts the call has to encode, and the comparisons it has to make, that
\* raise
RaisingSteps(call) ==
  {text \in {call.jd_skill} \cup Range(call.resume_skills) :
     /\ text \notin call.self._embeddings_cache
     /\ text \in call.sentence_transformers.encode_raises}
  \cup (Range(call.resume_skills) \cap call.sentence_transformers.cos_sim_raises)

\* during the call the collaborator fails: the model does not load, or an
\* encoding or a comparison raises
CollaboratorFails(call) ==
  /\ SemanticReached(call)
  /\ IF call.self.model = None /\ ~call.sentence_transformers.load
       THEN TRUE
       ELSE RaisingSteps(call) # {}

\* C19: a failure of the semantic-similarity collaborator never escapes
\* match_skill: no call raises; when the model fails to load or an encoding
\* or a comparison raises, the call returns what the related-skill strategy
\* yields (the no-match result when it yields nothing); and a matcher without
\* embeddings returns what the other strategies yield.
C19_CollaboratorFailureContained ==
  pc # "start" =>
    /\ ret.raised = None
    /\ CollaboratorFails(args) => ret = RelatedMatch(args.jd_skill, args.resume_skills)
    /\ ~args.self.use_embeddings =>
         ret = WithoutSemantic(args.jd_skill, args.resume_skills, args.resume_text)

\* a comparison raises in the second call, on a matcher whose model is loaded,
\* and the call returns the related skill
C19_Witness ==
  /\ pc = "done"
  /\ args.self.model # None
  /\ args.jd_skill = "React"
  /\ "JavaScript" \in args.sentence_transformers.cos_sim_raises
  /\ CollaboratorFails(args)
  /\ ret = MatchResult(TRUE, 70, "JavaScript (related)")

\* C20: a call to match_skill leaves every field of the shared matcher (the
\* loaded model, the use_embeddings flag, the embedding cache) as it was
\* before the call.
C20_MatchSkillLeavesMatcher == pc # "start" => matcher = args.self

\* the target occurs in a declared skill or in the text, and wherever it
\* occurs it is part of a longer word
EvidenceOnlyInside(target, skills, text) ==
  /\ \A i \in 1..Len(skills) : ~SearchWord(target, skills[i])
  /\ ~SearchWord(target, text)
  /\ \/ \E i \in 1..Len(skills) : Contains(lower(skills[i]), lower(target))
     \/ Contains(lower(text), lower(target))

\* C14 as stated: a target that occurs in the declared skills and the text
\* only as part of a longer word is not matched by any strategy: the result
\* is no_match with confidence 0.0.
C14_NoMatchInsideLongerWord ==
  (pc = "done" /\ EvidenceOnlyInside(strip(args.jd_skill), args.resume_skills, args.resume_text))
  => (~ret.matched /\ ret.confidence = 0 /\ ret.match_strategy = "no_match")

\* C14 amended: a target that occurs in the declared skills and the text only
\* as part of a longer word is matched by none of the exact, text and partial
\* strategies; it is matched only through an equivalence or the SQL family,
\* and only when its name is in the equivalence index; otherwise the result
\* is no_match with confidence 0.0.
C14_NoTokenCrossing ==
  (pc = "done" /\ EvidenceOnlyInside(strip(args.jd_skill), args.resume_skills, args.resume_text))
  => /\ ret.match_strategy \in {"no_match", "equivalence_match", "sql_family_match"}
     /\ ret.matched => strip(lower(args.jd_skill)) \in DOMAIN equiv_to_canonical
     /\ ~ret.matched => (ret.confidence = 0 /\ ret.match_strategy = "no_match")

\* Java against the declared skill JavaScript and a text with JavaScript
C14_Witness ==
  /\ pc = "done"
  /\ args.jd_skill = "Java"
  /\ args.resume_skills = <<"JavaScript">>
  /\ Contains(args.resume_text, "JavaScript")
  /\ EvidenceOnlyInside(strip(args.jd_skill), args.resume_skills, args.resume_text)
  /\ ret.match_strategy = "no_match"

\* the confidences of the checks of _match_skill that succeed on the input
SucceedingConfidences(jd_skill_lower, jd_normalized, lowered, normalized, text) ==
  {100 : hit \in {1} \cap {IF jd_skill_lower \in lowered THEN 1 ELSE 0}}
  \cup {95 : hit \in {1} \cap {IF jd_normalized \in normalized THEN 1 ELSE 0}}
  \cup {IF lower(equiv) \in lowered THEN 95 ELSE 90 :
          equiv \in {e \in Range(EquivalentsOf(jd_normalized)) :
                       lower(e) \in lowered \/ _skill_in_text(e, text)}}
  \cup {IF variant \in lowered \/ _normalize_skill(variant) \in normalized THEN 95 ELSE 90 :
          variant \in {v \in Range(sql_variants) :
                         /\ jd_normalized = "sql"
                         /\ \/ v \in lowered
                            \/ _normalize_skill(v) \in normalized
                            \/ _skill_in_text(v, text)}}
  \cup {80 : hit \in {1} \cap {IF _skill_in_text(jd_skill_lower, text) THEN 1 ELSE 0}}
  \cup {65 : part \in {p \in Range(MainParts(split(replace(replace(jd_skill_lower, "-", " "),
                                                            "/", " ")))) :
                         p \in lowered \/ _skill_in_text(p, text)}}

Highest(confidences) ==
  IF confidences = {} THEN 0
  ELSE CHOOSE c \in confidences : \A other \in confidences : other <= c

\* C15: the confidence _match_skill returns is the highest confidence of any
\* of its checks that succeeds on the same input.
C15_HighestConfidenceFirst ==
  pc = "done" =>
    ret.confidence =
      Highest(SucceedingConfidences(
                strip(lower(args.jd_skill)), _normalize_skill(args.jd_skill),
                {lower(args.resume_skills[i]) : i \in 1..Len(args.resume_skills)},
                {_normalize_skill(args.resume_skills[i]) : i \in 1..Len(args.resume_skills)},
                lower(args.resume_text)))

(***************************************************************************)
(* GapAnalysisAgent._get_skill_importance called on the names of the       *)
(* importance table, as written, in upper case and padded, and on names    *)
(* the table does not hold.                                                *)
(***************************************************************************)
ImportanceInputs ==
  UNION {Writings(name) : name \in (DOMAIN SKILL_IMPORTANCE) \cup UnknownSkills}

InitImportance ==
  /\ \E skill \in ImportanceInputs : args = <<skill>>
  /\ pc = "call"
  /\ ret = None
  /\ resume = None /\ jd = None /\ gap_analysis = None /\ ats = None /\ matcher = None

GetSkillImportance ==
  /\ pc = "call"
  /\ ret' = _get_skill_importance(args[1])
  /\ pc' = "done"
  /\ UNCHANGED <<resume, jd, gap_analysis, ats, args, matcher>>

NextImportance == GetSkillImportance

SpecImportance == InitImportance /\ [][NextImportance]_vars

\* C21: for every name that is a key of SKILL_IMPORTANCE,
\* _get_skill_importance returns the value the table holds for the name; the
\* default "medium" is returned for the names the table does not hold.
C21_ImportanceFromTable ==
  pc = "done" =>
    ret = IF strip(lower(args[1])) \in DOMAIN SKILL_IMPORTANCE
            THEN SKILL_IMPORTANCE[strip(lower(args[1]))]
            ELSE "medium"

(***************************************************************************)
(* _calculate_weighted_match over growing lists of match results: args     *)
(* holds the required and the preferred match results, ret the percentage  *)
(* analyze stores for them, in tenths.                                     *)
(***************************************************************************)
MaxWeighted == 2

Importances == {"critical", "high", "medium", "low"}

\* a result of _match_skill: unmatched, or matched by the partial or by the
\* exact strategy
WeightedResults ==
  {no_match("Skill", importance) : importance \in Importances}
  \cup {SkillMatchResult("Skill", TRUE, "skill", 65, "partial_match", importance) :
          importance \in Importances}
  \cup {SkillMatchResult("Skill", TRUE, "skill", 100, "exact_match", importance) :
          importance \in Importances}

InitWeighted ==
  /\ args = [required_matches |-> <<>>, preferred_matches |-> <<>>]
  /\ ret = _calculate_weighted_match(<<>>, <<>>)
  /\ pc = "matches"
  /\ resume = None /\ jd = None /\ gap_analysis = None /\ ats = None /\ matcher = None

\* analyze matches the required skills first, then the preferred ones
AddRequiredMatch ==
  /\ pc = "matches"
  /\ args.preferred_matches = <<>>
  /\ Len(args.required_matches) + Len(args.preferred_matches) < MaxWeighted
  /\ \E m \in WeightedResults :
       args' = [args EXCEPT !.required_matches = Append(@, m)]
  /\ ret' = _calculate_weighted_match(args'.required_matches, args'.preferred_matches)
  /\ UNCHANGED <<resume, jd, gap_analysis, ats, pc, matcher>>

AddPreferredMatch ==
  /\ pc = "matches"
  /\ Len(args.required_matches) + Len(args.preferred_matches) < MaxWeighted
  /\ \E m \in WeightedResults :
       args' = [args EXCEPT !.preferred_matches = Append(@, m)]
  /\ ret' = _calculate_weighted_match(args'.required_matches, args'.preferred_matches)
  /\ UNCHANGED <<resume, jd, gap_analysis, ats, pc, matcher>>

NextWeighted == AddRequiredMatch \/ AddPreferredMatch

SpecWeighted == InitWeighted /\ [][NextWeighted]_vars

\* the weight of an item in hundredths: 1.0, 0.8, 0.5 or 0.2 by importance,
\* times 0.3 for a preferred item
ExactWeight(m, preferred) ==
  ((CASE m.importance = "critical" -> 100 [] m.importance = "high" -> 80
      [] m.importance = "medium" -> 50 [] m.importance = "low" -> 20)
   * (IF preferred THEN 3 ELSE 10)) \div 10

RECURSIVE SumOver(_, _)
SumOver(values, i) == IF i = 0 THEN 0 ELSE values[i] + SumOver(values, i - 1)

\* the sum of all weights, in hundredths
TotalExact(required_matches, preferred_matches) ==
  SumOver([i \in 1..Len(required_matches) |-> ExactWeight(required_matches[i], FALSE)],
          Len(required_matches))
  + SumOver([i \in 1..Len(preferred_matches) |-> ExactWeight(preferred_matches[i], TRUE)],
            Len(preferred_matches))

\* the sum of weight x confidence over the matched items, in ten-thousandths
MatchedExact(required_matches, preferred_matches) ==
  SumOver([i \in 1..Len(required_matches) |->
             IF required_matches[i].matched
               THEN ExactWeight(required_matches[i], FALSE) * required_matches[i].confidence
               ELSE 0], Len(required_matches))
  + SumOver([i \in 1..Len(preferred_matches) |->
               IF preferred_matches[i].matched
                 THEN ExactWeight(preferred_matches[i], TRUE) * preferred_matches[i].confidence
                 ELSE 0], Len(preferred_matches))

\* tenths is value / total rounded to one decimal, value in thousandths of total
RoundsTo(tenths, value, total) ==
  2 * (tenths * total - value) <= total /\ 2 * (value - tenths * total) <= total

\* C22: for lists with at least one item, the overall match percentage equals
\* 100 x (sum of weight x confidence over the matched required and preferred
\* items) / (sum of the weights of all of them), rounded to one decimal, a
\* required item weighing 1.0, 0.8, 0.5 or 0.2 by importance and a preferred
\* item 0.3 times that; the percentage always lies in 0..100.
C22_WeightedPercentage ==
  /\ ret \in 0..1000
  /\ TotalExact(args.required_matches, args.preferred_matches) > 0 =>
       RoundsTo(ret, 10 * MatchedExact(args.required_matches, args.preferred_matches),
                TotalExact(args.required_matches, args.preferred_matches))

\* a critical required item matched by the partial strategy and a high
\* preferred item not matched: 100 x 0.65 / 1.24 = 52.4
C22_Witness ==
  /\ Len(args.required_matches) = 1 /\ Len(args.preferred_matches) = 1
  /\ args.required_matches[1].importance = "critical"
  /\ args.required_matches[1].confidence = 65
  /\ args.preferred_matches[1].importance = "high"
  /\ ~args.preferred_matches[1].matched
  /\ ret = 524

\* the concrete SQL dialects
SqlDialects == {"postgresql", "mysql", "mariadb", "sqlite", "sql server", "oracle"}

\* the candidate declares or mentions a concrete SQL dialect
DialectEvidence(skills, text) ==
  \E dialect \in SqlDialects :
    \/ \E i \in 1..Len(skills) : strip(lower(skills[i])) = dialect
    \/ SearchWord(dialect, text)

\* the candidate declares or mentions SQL itself
SqlItself(skills, text) ==
  \/ \E i \in 1..Len(skills) : SearchWord("sql", skills[i])
  \/ SearchWord("sql", text)

\* C23: a requirement for generic SQL that is matched while the candidate
\* declares or mentions a concrete SQL dialect and not SQL itself carries the
\* strategy tag sql_family_match.
C23_SqlFamilyTag ==
  (/\ pc = "done"
   /\ strip(lower(args.jd_skill)) = "sql"
   /\ ret.matched
   /\ DialectEvidence(args.resume_skills, args.resume_text)
   /\ ~SqlItself(args.resume_skills, args.resume_text))
  => ret.match_strategy = "sql_family_match"

\* the skill score of the job description when the first matched of its
\* required skills are reported matched and the others missing
SkillScoreAt(j, matched, style) ==
  _calculate_skill_score(
    GapWithMissing(j, [i \in 1..(Len(j.required_skills) - matched) |->
                         SkillGap(j.required_skills[matched + i], "required", "medium")],
                   style), j).score

\* C24: for a fixed number of required skills, raising the required match
\* ratio from 80% to 100% increases the skill score by more than raising it
\* from 0% to 20%.
C24_GainsNearFullCoverage ==
  (/\ pc = "matching"
   /\ Len(jd.required_skills) % 5 = 0
   /\ ret.details.required_matched = Len(jd.required_skills))
  => ret.score - SkillScoreAt(jd, 4 * (Len(jd.required_skills) \div 5), args)
       > SkillScoreAt(jd, Len(jd.required_skills) \div 5, args) - SkillScoreAt(jd, 0, args)

(***************************************************************************)
(* The pipeline on job descriptions whose required list repeats an entry,  *)
(* in the same or in another letter case.                                  *)
(***************************************************************************)
RepeatingLists ==
  {<<"Python", "python", "Kafka">>, <<"Python", "Docker", "Python">>,
   <<"Go", "Rust", "GO", "Elixir">>}

InitDuplicate ==
  /\ resume \in Resumes
  /\ \E req \in RepeatingLists, seniority \in {"entry", "senior"} :
       jd = ParsedJobDescription("Backend Engineer", req, <<"React">>, <<"Git">>,
                                 <<"REST">>, seniority)
  /\ gap_analysis = None /\ ats = None /\ matcher = None /\ ret = None
  /\ args = <<>>
  /\ pc = "start"

NextDuplicate == Analyze \/ Score

SpecDuplicate == InitDuplicate /\ [][NextDuplicate]_vars

\* the list without the entries that repeat an earlier one, up to letter case
WithoutRepeats(skills) ==
  SelectIdx(skills, [i \in 1..Len(skills) |->
                       \A h \in 1..(i - 1) : lower(skills[h]) # lower(skills[i])], 1)

Deduplicated(j) == [j EXCEPT !.required_skills = WithoutRepeats(@)]

\* C25: for a required list that repeats an entry and the gap analysis that
\* analyze produces, the required match ratio and the skill score equal those
\* of the list with the repeats removed; when every required skill is matched
\* the match ratio is 1.0.
C25_DuplicatesNotDoubleCounted ==
  pc = "scored" =>
    \A counted \in {_calculate_skill_score(gap_analysis, jd)},
       once \in {_calculate_skill_score(analyze(resume, Deduplicated(jd)),
                                        Deduplicated(jd))} :
      /\ counted.details.match_rate = once.details.match_rate
      /\ ats.skill_match_score = once.score
      /\ counted.details.missing_required = <<>> => counted.details.match_rate = 1000

\* C26: the bucket of every result of score follows the documented ranges:
\* STRONG only from 80 on, MODERATE only in 55..79, WEAK only in 35..54 and
\* NOT_ATS_FRIENDLY only below 35.
C26_BucketFollowsRanges ==
  (pc = "scored" /\ ats.raised = None) =>
    /\ ats.bucket = STRONG => ats.overall_score >= 80
    /\ ats.bucket = MODERATE => ats.overall_score \in 55..79
    /\ ats.bucket = WEAK => ats.overall_score \in 35..54
    /\ ats.bucket = NOT_ATS_FRIENDLY => ats.overall_score < 35

RequiredSizes == {3, 7, 8}

InitCoverage ==
  /\ resume \in Resumes
  /\ \E n \in RequiredSizes :
       jd = ParsedJobDescription("Backend Engineer", Take(SkillNames, n), <<>>, <<>>, <<>>,
                                 "senior")
  /\ gap_analysis =
       GapWithMissing(jd, [i \in 1..Len(jd.required_skills) |->
                             SkillGap(jd.required_skills[i], "required", "medium")], "same")
  /\ ats = score(resume, jd, gap_analysis)
  /\ pc = "matching"
  /\ args = <<>>
  /\ ret = None /\ matcher = None

\* one more required skill is reported matched and the result is scored again
MatchAndScore ==
  /\ pc = "matching"
  /\ \E i \in {1, Len(gap_analysis.missing_skills)} \cap DOMAIN gap_analysis.missing_skills :
       gap_analysis' =
         GapWithMissing(jd, SubSeq(gap_analysis.missing_skills, 1, i - 1)
                              \o SubSeq(gap_analysis.missing_skills, i + 1,
                                        Len(gap_analysis.missing_skills)), "same")
  /\ ats' = score(resume, jd, gap_analysis')
  /\ UNCHANGED <<resume, jd, pc, args, ret, matcher>>

NextCoverage == MatchAndScore

SpecCoverage == InitCoverage /\ [][NextCoverage]_vars

\* C27: with the candidate and the job description fixed, moving one required
\* skill from the missing to the matching list never lowers the overall
\* score.
C27_OverallScoreMonotone == [][ats'.overall_score >= ats.overall_score]_vars

(***************************************************************************)
(* _match_skill on targets that begin or end with a character that is no   *)
(* letter and no digit, and on candidate texts that hold them as words.    *)
(***************************************************************************)
TokenTargets == {"C++", "C#", ".NET", "Rust", "Go"}

TokenDeclared == {<<>>, <<"Python">>, <<"Docker", "Kafka">>}

TokenTexts ==
  {"", "Wrote C++ daily", "Built .NET services in Rust", "C# and Go developer",
   "C++services on ASP.NET"}

InitToken ==
  /\ args \in [jd_skill : TokenTargets, resume_skills : TokenDeclared,
               resume_text : TokenTexts]
  /\ pc = "call"
  /\ ret = None
  /\ resume = None /\ jd = None /\ gap_analysis = None /\ ats = None /\ matcher = None

NextToken == MatchSkill

SpecToken == InitToken /\ [][NextToken]_vars

\* the target is one of the whitespace-delimited tokens of the text, up to
\* letter case
IsTokenOf(target, text) ==
  \E k \in DOMAIN split(lower(text)) : split(lower(text))[k] = strip(lower(target))

\* C29: a target that is no declared skill and occurs in the candidate text
\* as a complete whitespace-delimited token is reported matched, also when it
\* begins or ends with a character that is no letter and no digit.
C29_WholeTokenFound ==
  (pc = "done" /\ IsTokenOf(args.jd_skill, args.resume_text)) => ret.matched

(***************************************************************************)
(* get_skill_matcher called by several threads.  matcher is the module     *)
(* global _matcher_instance.  A SkillMatcher object is told from another   *)
(* by the thread that constructed it: args.instance[c] is the object       *)
(* thread c has constructed, ret[c] the object returned to it, pc[c] its   *)
(* position.  The interpreter may switch threads between the test of the   *)
(* global, the construction (a call that runs Python code) and the         *)
(* assignment.                                                             *)
(***************************************************************************)
NumCallers == 3

Callers == 1..NumCallers

\* None in a variable that holds a reference to an object
NoObject == [id |-> 0]

IsNone(ref) == ref.id = 0

\* the SkillMatcher object constructed by thread c
Instance(c, EMBEDDINGS_AVAILABLE) ==
  [id |-> c, self |-> SkillMatcher(TRUE, EMBEDDINGS_AVAILABLE)]

InitGetMatcher ==
  /\ matcher = NoObject
  /\ \E EMBEDDINGS_AVAILABLE \in BOOLEAN :
       args = [EMBEDDINGS_AVAILABLE |-> EMBEDDINGS_AVAILABLE,
               instance |-> [c \in Callers |-> NoObject]]
  /\ pc = [c \in Callers |-> "call"]
  /\ ret = [c \in Callers |-> NoObject]
  /\ resume = None /\ jd = None /\ gap_analysis = None /\ ats = None

\* if _matcher_instance is None:
TestInstance(c) ==
  /\ pc[c] = "call"
  /\ pc' = [pc EXCEPT ![c] = IF IsNone(matcher) THEN "construct" ELSE "return"]
  /\ UNCHANGED <<resume, jd, gap_analysis, ats, matcher, args, ret>>

\* SkillMatcher(use_embeddings=True)
Construct(c) ==
  /\ pc[c] = "construct"
  /\ args' = [args EXCEPT !.instance[c] = Instance(c, args.EMBEDDINGS_AVAILABLE)]
  /\ pc' = [pc EXCEPT ![c] = "assign"]
  /\ UNCHANGED <<resume, jd, gap_analysis, ats, matcher, ret>>

\* _matcher_instance = ...
AssignInstance(c) ==
  /\ pc[c] = "assign"
  /\ matcher' = args.instance[c]
  /\ pc' = [pc EXCEPT ![c] = "return"]
  /\ UNCHANGED <<resume, jd, gap_analysis, ats, args, ret>>

\* return _matcher_instance
ReturnInstance(c) ==
  /\ pc[c] = "return"
  /\ ret' = [ret EXCEPT ![c] = matcher]
  /\ pc' = [pc EXCEPT ![c] = "done"]
  /\ UNCHANGED <<resume, jd, gap_analysis, ats, matcher, args>>

NextGetMatcher ==
  \E c \in Callers :
    TestInstance(c) \/ Construct(c) \/ AssignInstance(c) \/ ReturnInstance(c)

SpecGetMatcher == InitGetMatcher /\ [][NextGetMatcher]_vars

\* C30: under every interleaving of the callers at most one SkillMatcher is
\* created, and every caller is returned the same instance.
C30_OneInstance ==
  /\ Cardinality({c \in Callers : ~IsNone(args.instance[c])}) <= 1
  /\ \A c, d \in Callers : (pc[c] = "done" /\ pc[d] = "done") => ret[c].id = ret[d].id

====
